---- MODULE Spec2Model ----
(***************************************************************************)
(* Model of the background job pipeline of the liked-songs shuffle worker  *)
(* (src/src/index.ts): the /shuffle trigger, startPlaylistGeneration with  *)
(* its status snapshots in the KV store, the two paginated fetchers, the   *)
(* track matcher, applyShuffleLogic and addTracksToPlaylist; and of the    *)
(* handlers of handleRequest that share the KV namespace with the jobs:    *)
(* the status query, the Spotify callback, the Last.fm login and callback. *)
(*                                                                         *)
(* Strings the code normalises (artist names, titles) are sequences of     *)
(* one-character strings, so that toLowerCase, trim and join are computed. *)
(* Date.now() / toLocaleString() values are not modelled: the timestamp    *)
(* field of a snapshot and the date inside the playlist name are left out. *)
(***************************************************************************)
EXTENDS Integers, Sequences, FiniteSets, TLC

VARIABLES
    likedPages,            \* remote: the pages of the user's liked songs (Spotify)
    lastFmPages,           \* remote: the pages of the user's top tracks (Last.fm)
    pc,                    \* position of the trigger / of startPlaylistGeneration
    kv,                    \* SPOTIFY_TOKENS entry under STATUS_KEY_PREFIX + processId
    log,                   \* history: every KV put, outbound call and matching run, in order
    response,              \* HTTP status of the /shuffle response (0: none yet)
    nextUrl,               \* fetchAllLikedSongs: index of the next page, 0 for null
    allTracks,             \* fetchAllLikedSongs: accumulated tracks (likedTracks)
    page,                  \* fetchLastFmTopTracks: page
    totalPages,            \* fetchLastFmTopTracks: totalPages
    allTopTracks,          \* fetchLastFmTopTracks: accumulated records (lastFmTopTracks)
    lastFmPlayCountMap,    \* startPlaylistGeneration: key -> playcount
    tracksWithPlayCounts,  \* startPlaylistGeneration: matched tracks
    level,                 \* applyShuffleLogic: loop variable i
    cumulativePool,        \* applyShuffleLogic: cumulativePool
    finalPlaylist,         \* applyShuffleLogic: finalPlaylist (shuffledTracks)
    blocks,                \* history: <<level, length>> of every block pushed to finalPlaylist
    previousRun,           \* history: what an earlier run of applyShuffleLogic returned
    playlist,              \* remote: the created playlist, NoPlaylist before
    trackUris,             \* addTracksToPlaylist: trackUris
    maxRequests,           \* addTracksToPlaylist: maxRequests
    requestCount,          \* addTracksToPlaylist: requestCount
    addIndex,              \* addTracksToPlaylist: loop variable i
    batches,               \* remote: the batches received by the add-tracks endpoint
    warned,                \* addTracksToPlaylist: console.warn was emitted
    error,                 \* the error caught by startPlaylistGeneration
    statusResponse,        \* the answer to the latest /status/<processId> request
    shuffleResponse,       \* the answer to the latest /shuffle request
    requests,              \* connection -> the request the worker is handling on it
    store,                 \* SPOTIFY_TOKENS as a whole: key -> entry, for the requests
                           \* of several clients and runs
    runs                   \* the runs started by /shuffle requests, reduced to their
                           \* accesses to the store

vars == <<likedPages, lastFmPages, pc, kv, log, response, nextUrl, allTracks, page,
          totalPages, allTopTracks, lastFmPlayCountMap, tracksWithPlayCounts, level,
          cumulativePool, finalPlaylist, blocks, previousRun, playlist, trackUris,
          maxRequests, requestCount, addIndex, batches, warned, error, statusResponse,
          shuffleResponse, requests, store, runs>>

workerVars == <<statusResponse, shuffleResponse, requests, store, runs>>
remoteVars == <<likedPages, lastFmPages>>
jobLocals == <<pc, kv, log, response, nextUrl, allTracks, page, totalPages, allTopTracks,
               lastFmPlayCountMap, tracksWithPlayCounts, level, cumulativePool,
               finalPlaylist, blocks, previousRun, playlist, trackUris, maxRequests,
               requestCount, addIndex, batches, warned, error>>
likedVars == <<nextUrl, allTracks>>
lastFmVars == <<page, totalPages, allTopTracks>>
matchVars == <<lastFmPlayCountMap, tracksWithPlayCounts>>
shuffleVars == <<level, cumulativePool, finalPlaylist, blocks, previousRun>>
addVars == <<trackUris, maxRequests, requestCount, addIndex, batches, warned>>

(***************************************************************************)
(* Bounds of the model and constants of the program                        *)
(***************************************************************************)
MaxLikedPages == 2
MaxLastFmPages == 2
MaxUris == 350
LevelsPerStep == 40
MaxBudget == 4
MaxMatchTracks == 4
MaxMatchRecords == 2
MaxShuffleTracks == 3
MaxShuffleCount == 2
MaxTwiceTracks == 2
MaxTwiceCount == 3

SPOTIFY_PLAYLIST_ADD_MAX_REQUESTS == 40
batchSize == 100
TerminalTtl == 3600

(***************************************************************************)
(* Strings: toLowerCase, trim, join                                        *)
(***************************************************************************)
LowerChar(c) ==
    CASE c = "A" -> "a"
      [] c = "B" -> "b"
      [] c = "X" -> "x"
      [] c = "Y" -> "y"
      [] OTHER -> c

ToLowerCase(s) == [k \in 1..Len(s) |-> LowerChar(s[k])]

RECURSIVE TrimStart(_)
TrimStart(s) == IF s # <<>> /\ Head(s) = " " THEN TrimStart(Tail(s)) ELSE s

RECURSIVE TrimEnd(_)
TrimEnd(s) ==
    IF s # <<>> /\ s[Len(s)] = " " THEN TrimEnd(SubSeq(s, 1, Len(s) - 1)) ELSE s

Trim(s) == TrimEnd(TrimStart(s))

RECURSIVE Join(_, _)
Join(strs, sep) ==
    IF strs = <<>> THEN <<>>
    ELSE IF Len(strs) = 1 THEN strs[1]
    ELSE strs[1] \o sep \o Join(Tail(strs), sep)

\* `${normalizedArtist} - ${normalizedTrack}`
MatchKey(normalizedArtist, normalizedTrack) ==
    normalizedArtist \o <<" ", "-", " ">> \o normalizedTrack

\* faulty variant: the record side lower-cases but does not trim
LastFmKeyUntrimmed(t) == MatchKey(ToLowerCase(t.artist), ToLowerCase(t.name))

\* key of a Last.fm top-track record
LastFmKey(t) == MatchKey(Trim(ToLowerCase(t.artist)), Trim(ToLowerCase(t.name)))

\* key of a Spotify track
SpotifyKey(t) ==
    MatchKey(Trim(ToLowerCase(Join(t.artists, <<",", " ">>))), Trim(ToLowerCase(t.name)))

(***************************************************************************)
(* The data the two services can hold                                      *)
(***************************************************************************)
Uri(n) == <<"spotify:track", n>>

TrackA == [id |-> "A", name |-> <<"X">>, artists |-> << <<"A">> >>, uri |-> Uri(1)]
TrackAB == [id |-> "AB", name |-> <<"X", " ">>, artists |-> << <<"A">>, <<"B">> >>,
            uri |-> Uri(2)]
TrackC == [id |-> "C", name |-> <<"Y">>, artists |-> << <<"B">> >>, uri |-> Uri(3)]

RecA0 == [artist |-> <<" ", "a">>, name |-> <<"X">>, playcount |-> 0]
RecA2 == [artist |-> <<"A">>, name |-> <<"x", " ">>, playcount |-> 2]
RecAB1 == [artist |-> <<"A", ",", " ", "B">>, name |-> <<"x">>, playcount |-> 1]
RecZ1 == [artist |-> <<"B">>, name |-> <<"X">>, playcount |-> 1]

\* entries of toptracks.track whose artist object has no name, or that have no name:
\* the fetcher maps them to records with artist: undefined, name: undefined
RecNoArtist == [name |-> <<"X">>, playcount |-> 1]
RecNoName == [artist |-> <<"A">>, playcount |-> 1]

\* a record whose play count makes the shuffled sequence of {TrackA: 0, TrackC: n}
\* n + 2 identifiers long
RecC(n) == [artist |-> <<"B">>, name |-> <<"Y">>, playcount |-> n]

RECURSIVE SeqsUpTo(_, _)
SeqsUpTo(S, n) ==
    IF n = 0 THEN {<<>>}
    ELSE LET shorter == SeqsUpTo(S, n - 1)
         IN shorter \cup {Append(s, x) : s \in {t \in shorter : Len(t) = n - 1}, x \in S}

\* the pages a service can answer with
LikedPageChoices == {<<>>, <<TrackA>>, <<TrackC>>, <<TrackAB, TrackA>>}
LikedChoices == SeqsUpTo(LikedPageChoices, MaxLikedPages) \ {<<>>}
LastFmPageChoices == {<<>>, <<RecA0>>, <<RecA2>>, <<RecAB1>>, <<RecZ1, RecA0>>}
LastFmChoices == SeqsUpTo(LastFmPageChoices, MaxLastFmPages) \ {<<>>}

\* inputs whose shuffled sequence is as long as the add budget allows, and longer
Capacity == SPOTIFY_PLAYLIST_ADD_MAX_REQUESTS * batchSize
LargeLiked == << <<TrackA, TrackC>> >>
LargeLastFm == {<< <<RecA0, RecC(Capacity - 2)>> >>, << <<RecA0, RecC(Capacity - 1)>> >>}

\* inputs in which a page of Last.fm has an entry without artist name or track name
MalformedLastFm == {<< <<RecA0, RecNoArtist>> >>, << <<RecNoName>>, <<RecA0>> >>}

(***************************************************************************)
(* The status store and the snapshots the code writes                      *)
(***************************************************************************)
NoEntry == [absent |-> TRUE]
NoPlaylist == [absent |-> TRUE]
NoError == [absent |-> TRUE]
NoRun == [absent |-> TRUE]
NoResponse == [absent |-> TRUE]
NoStore == [k \in {} |-> NoEntry]

\* the requests the worker can be handling at one time
MaxInFlight == 2
Connections == 1..MaxInFlight

\* a connection without a request
Idle == [handler |-> "none"]

\* the options argument of SPOTIFY_TOKENS.put
NoOptions == [o \in {} |-> 0]
ExpireOptions == [expirationTtl |-> TerminalTtl]

Msg(text, args) == [text |-> text, args |-> args]

SnapPending ==
    [status |-> "pending", message |-> Msg("Playlist generation process initiated.", <<>>),
     progress |-> "0%"]

SnapFetchingLikedSongs ==
    [status |-> "fetching_liked_songs",
     message |-> Msg("Fetching all liked songs from Spotify...", <<>>), progress |-> "0%"]

SnapNoLikedSongs ==
    [status |-> "completed",
     message |-> Msg("No liked songs found in your Spotify library.", <<>>),
     progress |-> "100%"]

SnapFetchingLastFm ==
    [status |-> "fetching_lastfm_top_tracks",
     message |-> Msg("Fetching all Last.fm top tracks (this may take a while for large libraries)...", <<>>),
     progress |-> "10%"]

SnapMatching(n) ==
    [status |-> "matching_tracks",
     message |-> Msg("Matching ${likedTracks.length} Spotify songs with Last.fm data and filtering...", <<n>>),
     progress |-> "50%"]

SnapNoMatches ==
    [status |-> "completed",
     message |-> Msg("No liked songs found with Last.fm play counts. Playlist not created.", <<>>),
     progress |-> "100%"]

\* faulty variant: the progress of applying_shuffle_logic is below that of matching_tracks
SnapApplyingShuffleAtForty ==
    [status |-> "applying_shuffle_logic",
     message |-> Msg("Applying cumulative shuffle logic...", <<>>), progress |-> "40%"]

SnapApplyingShuffle ==
    [status |-> "applying_shuffle_logic",
     message |-> Msg("Applying cumulative shuffle logic...", <<>>), progress |-> "90%"]

SnapCreatingPlaylist ==
    [status |-> "creating_playlist",
     message |-> Msg("Creating new Spotify playlist...", <<>>), progress |-> "95%"]

SnapAddingTracks(n) ==
    [status |-> "adding_tracks",
     message |-> Msg("Adding ${shuffledTracks.length} tracks to playlist (limited to ${SPOTIFY_PLAYLIST_ADD_MAX_REQUESTS * 100} tracks)...",
                     <<n, SPOTIFY_PLAYLIST_ADD_MAX_REQUESTS * 100>>),
     progress |-> "98%"]

SnapCompleted(playlistUrl) ==
    [status |-> "completed",
     message |-> Msg("Successfully created and populated playlist: ${playlistName}", <<>>),
     playlistUrl |-> playlistUrl, progress |-> "100%"]

\* error.message || 'Unknown error'
ErrorText(e) == IF e.message = "" THEN "Unknown error" ELSE e.message

\* faulty variant: the failed snapshot has a playlistUrl field
SnapFailedWithUrl(e) ==
    [status |-> "failed", message |-> Msg("Playlist generation failed.", <<>>),
     error |-> ErrorText(e), playlistUrl |-> "", progress |-> "100%"]

SnapFailed(e) ==
    [status |-> "failed", message |-> Msg("Playlist generation failed.", <<>>),
     error |-> ErrorText(e), progress |-> "100%"]

\* what a failing call throws
KvError == [message |-> "KV PUT failed"]
TypeError == [message |-> "Cannot read properties of undefined (reading 'toLowerCase')"]
SpotifyError == [message |-> "Spotify API request failed: 500 - Server error"]

Event(op, status, n, ok) == [op |-> op, status |-> status, n |-> n, ok |-> ok]
PutEvent(snapshot, options, ok) ==
    [op |-> "put", status |-> snapshot.status, n |-> 0, ok |-> ok,
     ttl |-> "expirationTtl" \in DOMAIN options, progress |-> snapshot.progress]

\* faulty variant: a put that throws is swallowed and the code goes on
StatusPutSwallowed(snapshot, options, okPc) ==
    \/ /\ kv' = [value |-> snapshot, options |-> options]
       /\ log' = Append(log, PutEvent(snapshot, options, TRUE))
       /\ pc' = okPc
       /\ error' = error
    \/ /\ kv' = kv
       /\ log' = Append(log, PutEvent(snapshot, options, FALSE))
       /\ pc' = okPc
       /\ error' = error

\* await SPOTIFY_TOKENS.put(statusKey, JSON.stringify(snapshot), options) inside the
\* try block: the write is stored and the code goes on at okPc, or the put throws
\* and control passes to the catch block
StatusPut(snapshot, options, okPc) ==
    \/ /\ kv' = [value |-> snapshot, options |-> options]
       /\ log' = Append(log, PutEvent(snapshot, options, TRUE))
       /\ pc' = okPc
       /\ error' = error
    \/ /\ kv' = kv
       /\ log' = Append(log, PutEvent(snapshot, options, FALSE))
       /\ pc' = "catch"
       /\ error' = KvError

(***************************************************************************)
(* Pure parts: the play-count map, the matcher, the shuffle helpers        *)
(***************************************************************************)
EmptyMap == [k \in {} |-> 0]

\* faulty variant: a key that is already in the map keeps its value
MapSetIfAbsent(map, key, value) ==
    [k \in DOMAIN map \cup {key} |-> IF k \in DOMAIN map THEN map[k] ELSE value]

\* Map.set(key, value)
MapSet(map, key, value) ==
    [k \in DOMAIN map \cup {key} |-> IF k = key THEN value ELSE map[k]]

\* for (const track of lastFmTopTracks) lastFmPlayCountMap.set(key, track.playcount)
RECURSIVE BuildPlayCountMap(_, _)
BuildPlayCountMap(records, map) ==
    IF records = <<>> THEN map
    ELSE BuildPlayCountMap(Tail(records),
                           MapSet(map, LastFmKey(Head(records)), Head(records).playcount))

\* track.artist.toLowerCase() and track.name.toLowerCase() have a string to work on
HasArtistAndName(track) == {"artist", "name"} \subseteq DOMAIN track

\* the first record at which the loop over lastFmTopTracks throws, 0 when it does not
FirstThrow(records) ==
    IF \A k \in 1..Len(records) : HasArtistAndName(records[k]) THEN 0
    ELSE CHOOSE k \in 1..Len(records) :
             /\ ~HasArtistAndName(records[k])
             /\ \A j \in 1..(k - 1) : HasArtistAndName(records[j])

\* { ...track, lastFmPlayCount: playCount }
WithPlayCount(track, playCount) ==
    [id |-> track.id, name |-> track.name, artists |-> track.artists, uri |-> track.uri,
     lastFmPlayCount |-> playCount]

\* faulty variant: a track without a record is kept with play count 0
RECURSIVE MatchTracksDefaultZero(_, _)
MatchTracksDefaultZero(likedTracks, map) ==
    IF likedTracks = <<>> THEN <<>>
    ELSE LET track == Head(likedTracks)
             rest == MatchTracksDefaultZero(Tail(likedTracks), map)
         IN IF SpotifyKey(track) \in DOMAIN map
            THEN <<WithPlayCount(track, map[SpotifyKey(track)])>> \o rest
            ELSE <<WithPlayCount(track, 0)>> \o rest

\* faulty variant: a matched track is put in front of the tracks matched before it
RECURSIVE MatchTracksNewestFirst(_, _)
MatchTracksNewestFirst(likedTracks, map) ==
    IF likedTracks = <<>> THEN <<>>
    ELSE LET track == Head(likedTracks)
             rest == MatchTracksNewestFirst(Tail(likedTracks), map)
         IN IF SpotifyKey(track) \in DOMAIN map
            THEN rest \o <<WithPlayCount(track, map[SpotifyKey(track)])>>
            ELSE rest

\* for (const track of likedTracks) { ... if (playCount !== undefined) push }
RECURSIVE MatchTracks(_, _)
MatchTracks(likedTracks, map) ==
    IF likedTracks = <<>> THEN <<>>
    ELSE LET track == Head(likedTracks)
             rest == MatchTracks(Tail(likedTracks), map)
         IN IF SpotifyKey(track) \in DOMAIN map
            THEN <<WithPlayCount(track, map[SpotifyKey(track)])>> \o rest
            ELSE rest

\* track.lastFmPlayCount !== null ? track.lastFmPlayCount : 0 (null: no such field)
EffectivePlayCount(track) ==
    IF "lastFmPlayCount" \in DOMAIN track THEN track.lastFmPlayCount ELSE 0

\* faulty variant: the group of a level also holds the tracks of the lower levels
RECURSIVE PlayCountGroupUpTo(_, _)
PlayCountGroupUpTo(tracks, i) ==
    IF tracks = <<>> THEN <<>>
    ELSE IF EffectivePlayCount(Head(tracks)) <= i
         THEN <<Head(tracks)>> \o PlayCountGroupUpTo(Tail(tracks), i)
         ELSE PlayCountGroupUpTo(Tail(tracks), i)

\* playCountGroups.get(i): the tracks of that play count, in input order
RECURSIVE PlayCountGroup(_, _)
PlayCountGroup(tracks, i) ==
    IF tracks = <<>> THEN <<>>
    ELSE IF EffectivePlayCount(Head(tracks)) = i
         THEN <<Head(tracks)>> \o PlayCountGroup(Tail(tracks), i)
         ELSE PlayCountGroup(Tail(tracks), i)

\* faulty variant: maxPlayCount starts from 1
RECURSIVE MaxPlayCountFromOne(_)
MaxPlayCountFromOne(tracks) ==
    IF tracks = <<>> THEN 1
    ELSE LET m == MaxPlayCountFromOne(Tail(tracks))
             c == EffectivePlayCount(Head(tracks))
         IN IF c > m THEN c ELSE m

\* maxPlayCount, starting from 0
RECURSIVE MaxPlayCount(_)
MaxPlayCount(tracks) ==
    IF tracks = <<>> THEN 0
    ELSE LET m == MaxPlayCount(Tail(tracks))
             c == EffectivePlayCount(Head(tracks))
         IN IF c > m THEN c ELSE m

\* faulty variant: Math.floor(Math.random() * j), the index j itself is never chosen
RandomChoicesBelow(n) == {ks \in [1..(n - 1) -> 0..(n - 1)] : \A j \in 1..(n - 1) : ks[j] < j}

\* the values Math.floor(Math.random() * (j + 1)) can take for j = n-1 .. 1:
\* ks[j] is the index k chosen for j (both 0-based)
RandomChoices(n) == {ks \in [1..(n - 1) -> 0..(n - 1)] : \A j \in 1..(n - 1) : ks[j] <= j}

\* faulty variant: arr[j] = arr[k] without the assignment in the other direction
SwapOneWay(arr, j, k) == [x \in 1..Len(arr) |-> IF x = j + 1 THEN arr[k + 1] ELSE arr[x]]

\* [arr[j], arr[k]] = [arr[k], arr[j]] with 0-based j, k
Swap(arr, j, k) ==
    [x \in 1..Len(arr) |-> IF x = j + 1 THEN arr[k + 1]
                           ELSE IF x = k + 1 THEN arr[j + 1] ELSE arr[x]]

\* for (let j = length - 1; j > 0; j--) swap(j, ks[j])
RECURSIVE FisherYatesFrom(_, _, _)
FisherYatesFrom(arr, j, ks) ==
    IF j > 0 THEN FisherYatesFrom(Swap(arr, j, ks[j]), j - 1, ks) ELSE arr

FisherYates(pool, ks) == FisherYatesFrom(pool, Len(pool) - 1, ks)

\* faulty variant: the pool is not cumulative, it holds the group of the level only
PoolAtLevelNotCumulative(tracks, pool, i) ==
    SelectSeq(tracks, LAMBDA t : EffectivePlayCount(t) = i)

\* cumulativePool.push(...playCountGroups.get(i)) when the group exists
PoolAtLevel(tracks, pool, i) == pool \o PlayCountGroup(tracks, i)

\* faulty variant: depending on the random choices the block loses its first element
ShuffledBlocksOrTail(pool) ==
    IF Len(pool) > 0
    THEN {IF Len(pool) > 1 /\ ks[1] = 0
          THEN Tail(FisherYatesFrom(pool, Len(pool) - 1, ks))
          ELSE FisherYatesFrom(pool, Len(pool) - 1, ks) : ks \in RandomChoices(Len(pool))}
    ELSE {<<>>}

\* the blocks level i can append to finalPlaylist: every result of the Fisher-Yates
\* pass on a copy of the pool, or nothing when the pool is empty
ShuffledBlocks(pool) ==
    IF Len(pool) > 0 THEN {FisherYates(pool, ks) : ks \in RandomChoices(Len(pool))}
    ELSE {<<>>}

\* the level loop of applyShuffleLogic from level i to level last: every
\* (cumulativePool, finalPlaylist) it can end with, and the pushes it made
RECURSIVE ShuffleLevels(_, _, _, _, _, _)
ShuffleLevels(tracks, i, last, pool, final, pushed) ==
    IF i > last THEN {[pool |-> pool, final |-> final, blocks |-> pushed]}
    ELSE LET grown == PoolAtLevel(tracks, pool, i)
         IN UNION {ShuffleLevels(tracks, i + 1, last, grown, final \o block,
                                 IF Len(grown) > 0
                                 THEN Append(pushed, <<i, Len(block)>>) ELSE pushed) :
                       block \in ShuffledBlocks(grown)}

\* if (tracks.length === 0) return []; otherwise the level loop
ShuffleResults(tracks, i, last, pool, final, pushed) ==
    IF Len(tracks) = 0 THEN {[pool |-> <<>>, final |-> <<>>, blocks |-> <<>>]}
    ELSE ShuffleLevels(tracks, i, last, pool, final, pushed)

\* shuffledTracks.map(track => track.uri)
UrisOf(tracks) == [k \in 1..Len(tracks) |-> tracks[k].uri]

\* trackUris.slice(i, i + batchSize) with 0-based i
Slice(uris, i, j) == SubSeq(uris, i + 1, IF j < Len(uris) THEN j ELSE Len(uris))

(***************************************************************************)
(* Initial states                                                          *)
(***************************************************************************)
\* no request other than the /shuffle trigger has been handled
WorkerIdle ==
    /\ statusResponse = NoResponse
    /\ shuffleResponse = NoResponse
    /\ requests = [c \in Connections |-> Idle]
    /\ store = NoStore
    /\ runs = <<>>

LocalsInit ==
    /\ kv = NoEntry
    /\ log = <<>>
    /\ response = 0
    /\ nextUrl = 0
    /\ allTracks = <<>>
    /\ page = 0
    /\ totalPages = 0
    /\ allTopTracks = <<>>
    /\ lastFmPlayCountMap = EmptyMap
    /\ tracksWithPlayCounts = <<>>
    /\ level = 0
    /\ cumulativePool = <<>>
    /\ finalPlaylist = <<>>
    /\ blocks = <<>>
    /\ previousRun = NoRun
    /\ playlist = NoPlaylist
    /\ requestCount = 0
    /\ addIndex = 0
    /\ batches = <<>>
    /\ warned = FALSE
    /\ error = NoError
    /\ WorkerIdle

\* a /shuffle request of an authenticated user is about to store the pending status
Init ==
    /\ \/ likedPages \in LikedChoices /\ lastFmPages \in LastFmChoices
       \/ likedPages = LargeLiked /\ lastFmPages \in LargeLastFm
       \/ likedPages = << <<TrackA>> >> /\ lastFmPages \in MalformedLastFm
    /\ pc = "put_pending"
    /\ trackUris = <<>>
    /\ maxRequests = 0
    /\ LocalsInit

(***************************************************************************)
(* handleRequest, path /shuffle (index.ts 816-843)                         *)
(***************************************************************************)
\* faulty variant: the pending write is not awaited, the job starts whether or not
\* the write is stored
TriggerPutPendingNotAwaited ==
    /\ pc = "put_pending"
    /\ \/ /\ kv' = [value |-> SnapPending, options |-> NoOptions]
          /\ log' = Append(log, PutEvent(SnapPending, NoOptions, TRUE))
       \/ /\ kv' = kv
          /\ log' = Append(log, PutEvent(SnapPending, NoOptions, FALSE))
    /\ pc' = "wait_until"
    /\ response' = response
    /\ UNCHANGED <<workerVars, remoteVars, likedVars, lastFmVars, matchVars, shuffleVars, playlist,
                   addVars, error>>

\* await SPOTIFY_TOKENS.put(statusKey, pending); a throw is caught by the handler's
\* own catch, which answers 500 and starts nothing
TriggerPutPending ==
    /\ pc = "put_pending"
    /\ \/ /\ kv' = [value |-> SnapPending, options |-> NoOptions]
          /\ log' = Append(log, PutEvent(SnapPending, NoOptions, TRUE))
          /\ pc' = "wait_until"
          /\ response' = response
       \/ /\ kv' = kv
          /\ log' = Append(log, PutEvent(SnapPending, NoOptions, FALSE))
          /\ pc' = "not_started"
          /\ response' = 500
    /\ UNCHANGED <<workerVars, remoteVars, likedVars, lastFmVars, matchVars, shuffleVars, playlist,
                   addVars, error>>

\* event.waitUntil(startPlaylistGeneration(...)); response 202
TriggerStart ==
    /\ pc = "wait_until"
    /\ pc' = "put_fetching_liked_songs"
    /\ response' = 202
    /\ UNCHANGED <<workerVars, remoteVars, kv, log, likedVars, lastFmVars, matchVars, shuffleVars,
                   playlist, addVars, error>>

\* path /status/<processId> (index.ts 848-862): the HTTP status of the answer for
\* what SPOTIFY_TOKENS.get(statusKey) returns
StatusQueryResponse(entry) == IF entry = NoEntry THEN 404 ELSE 200

\* the processId the trigger of the model generates, and the ones a client can ask for
ThisProcessId == "p1"
QueryIds == {"p1", "p0"}

\* faulty variant: an absent entry is answered like a job that has not started yet
StatusQueryAnswerNeverNotFound(processId, entry) ==
    [processId |-> processId, status |-> 200,
     body |-> IF entry = NoEntry THEN SnapPending ELSE entry.value]

\* the answer for what SPOTIFY_TOKENS.get(statusKey) returns: 404 with a plain text for
\* null, else 200 with JSON.stringify(JSON.parse(value), null, 2), which carries the
\* fields of the stored value
StatusQueryAnswer(processId, entry) ==
    IF entry = NoEntry
    THEN [processId |-> processId, status |-> StatusQueryResponse(entry)]
    ELSE [processId |-> processId, status |-> StatusQueryResponse(entry),
          body |-> entry.value]

\* a client asks for the status of a processId; only the job's own key
\* STATUS_KEY_PREFIX + ThisProcessId can hold an entry here
StatusQuery ==
    /\ \E processId \in QueryIds :
          statusResponse' =
              StatusQueryAnswer(processId, IF processId = ThisProcessId THEN kv ELSE NoEntry)
    /\ UNCHANGED <<remoteVars, pc, kv, log, response, likedVars, lastFmVars, matchVars,
                   shuffleVars, playlist, addVars, error, shuffleResponse, requests, store,
                   runs>>

(***************************************************************************)
(* startPlaylistGeneration (index.ts 460-586)                              *)
(***************************************************************************)
PutFetchingLikedSongs ==
    /\ pc = "put_fetching_liked_songs"
    /\ StatusPut(SnapFetchingLikedSongs, NoOptions, "fetch_liked_songs")
    /\ nextUrl' = 1
    /\ allTracks' = <<>>
    /\ UNCHANGED <<workerVars, remoteVars, response, lastFmVars, matchVars, shuffleVars, playlist,
                   addVars>>

\* faulty variant: the empty catalog is not short-circuited
AfterLikedSongsNoShortCircuit(likedTracks) == "put_fetching_lastfm_top_tracks"

\* where the code goes once fetchAllLikedSongs has returned likedTracks
AfterLikedSongs(likedTracks) ==
    IF Len(likedTracks) = 0 THEN "put_completed_no_liked_songs"
    ELSE "put_fetching_lastfm_top_tracks"

\* faulty variant: the cursor of the first page is taken for the end of the catalog
NextCursorNull(url) == 0

\* data.next of the page at cursor url: the cursor of the following page, or null (0)
NextCursor(url) == IF url < Len(likedPages) THEN url + 1 ELSE 0

\* one iteration of the while loop of fetchAllLikedSongs: spotifyApiFetch(nextUrl)
FetchLikedSongsPage ==
    /\ pc = "fetch_liked_songs"
    /\ nextUrl # 0
    /\ \/ /\ allTracks' = allTracks \o likedPages[nextUrl]
          /\ nextUrl' = NextCursor(nextUrl)
          /\ log' = Append(log, Event("liked_songs_page", "", nextUrl, TRUE))
          /\ pc' = IF nextUrl' # 0 THEN "fetch_liked_songs" ELSE AfterLikedSongs(allTracks')
          /\ error' = error
       \/ /\ UNCHANGED likedVars
          /\ log' = Append(log, Event("liked_songs_page", "", nextUrl, FALSE))
          /\ pc' = "catch"
          /\ error' = SpotifyError
    /\ UNCHANGED <<workerVars, remoteVars, kv, response, lastFmVars, matchVars, shuffleVars, playlist,
                   addVars>>

\* faulty variant: the return after the completed write is missing
PutCompletedNoLikedSongsNoReturn ==
    /\ pc = "put_completed_no_liked_songs"
    /\ StatusPut(SnapNoLikedSongs, NoOptions, "put_fetching_lastfm_top_tracks")
    /\ UNCHANGED <<workerVars, remoteVars, response, likedVars, lastFmVars, matchVars, shuffleVars,
                   playlist, addVars>>

PutCompletedNoLikedSongs ==
    /\ pc = "put_completed_no_liked_songs"
    /\ StatusPut(SnapNoLikedSongs, NoOptions, "done")
    /\ UNCHANGED <<workerVars, remoteVars, response, likedVars, lastFmVars, matchVars, shuffleVars,
                   playlist, addVars>>

PutFetchingLastFm ==
    /\ pc = "put_fetching_lastfm_top_tracks"
    /\ StatusPut(SnapFetchingLastFm, NoOptions, "fetch_lastfm_top_tracks")
    /\ page' = 1
    /\ totalPages' = 1
    /\ allTopTracks' = <<>>
    /\ UNCHANGED <<workerVars, remoteVars, response, likedVars, matchVars, shuffleVars, playlist,
                   addVars>>

\* fetchLastFmTopTracks returns allTopTracks; the caller builds lastFmPlayCountMap.
\* A record without artist or name makes toLowerCase throw a TypeError inside the try
\* block of startPlaylistGeneration (index.ts 502-503): control passes to the catch
LastFmReturn(records) ==
    LET bad == FirstThrow(records)
    IN IF bad = 0
       THEN /\ lastFmPlayCountMap' = BuildPlayCountMap(records, EmptyMap)
            /\ pc' = "put_matching_tracks"
            /\ error' = error
       ELSE /\ lastFmPlayCountMap' = BuildPlayCountMap(SubSeq(records, 1, bad - 1), EmptyMap)
            /\ pc' = "catch"
            /\ error' = TypeError

\* what the return adds to the history: the throw of the map loop, if it throws
MapLoopEvents(records) ==
    IF FirstThrow(records) = 0 THEN <<>>
    ELSE <<Event("play_count_map", "", FirstThrow(records), FALSE)>>

\* faulty variant: the delay is taken after every page
MorePagesAlways(nextPage, total) == TRUE

\* if (page <= totalPages), after page++: another page is to be requested
MorePages(nextPage, total) == nextPage <= total

\* one iteration of the while loop of fetchLastFmTopTracks: fetch(url) for `page`
FetchLastFmPage ==
    /\ pc = "fetch_lastfm_top_tracks"
    /\ page <= totalPages
    /\ \/ /\ allTopTracks' = allTopTracks \o lastFmPages[page]
          /\ totalPages' = Len(lastFmPages)
          /\ page' = page + 1
          /\ IF MorePages(page', totalPages')
             THEN /\ log' = Append(log, Event("lastfm_page", "", page, TRUE))
                  /\ pc' = "lastfm_page_delay"
                  /\ UNCHANGED <<lastFmPlayCountMap, error>>
             ELSE /\ log' = Append(log, Event("lastfm_page", "", page, TRUE))
                              \o MapLoopEvents(allTopTracks')
                  /\ LastFmReturn(allTopTracks')
       \/ \* !response.ok: break
          /\ UNCHANGED lastFmVars
          /\ log' = Append(log, Event("lastfm_page", "", page, FALSE))
                      \o MapLoopEvents(allTopTracks)
          /\ LastFmReturn(allTopTracks)
       \/ \* response without toptracks.track: break
          /\ UNCHANGED lastFmVars
          /\ log' = Append(log, Event("lastfm_page", "", page, FALSE))
                      \o MapLoopEvents(allTopTracks)
          /\ LastFmReturn(allTopTracks)
       \/ \* fetch or response.json() throws: caught, break
          /\ UNCHANGED lastFmVars
          /\ log' = Append(log, Event("lastfm_page", "", page, FALSE))
                      \o MapLoopEvents(allTopTracks)
          /\ LastFmReturn(allTopTracks)
       \/ \* toptracks.track without toptracks['@attr']: the records are kept, then
          \* reading totalPages throws: caught, break
          /\ allTopTracks' = allTopTracks \o lastFmPages[page]
          /\ UNCHANGED <<page, totalPages>>
          /\ log' = Append(log, Event("lastfm_page", "", page, FALSE))
                      \o MapLoopEvents(allTopTracks')
          /\ LastFmReturn(allTopTracks')
    /\ UNCHANGED <<workerVars, remoteVars, kv, response, likedVars, tracksWithPlayCounts, shuffleVars,
                   playlist, addVars>>

\* await new Promise(resolve => setTimeout(resolve, LASTFM_PAGE_DELAY_MS))
LastFmPageDelay ==
    /\ pc = "lastfm_page_delay"
    /\ log' = Append(log, Event("delay", "", page, TRUE))
    /\ pc' = "fetch_lastfm_top_tracks"
    /\ UNCHANGED <<workerVars, remoteVars, kv, response, likedVars, lastFmVars, matchVars, shuffleVars,
                   playlist, addVars, error>>

PutMatchingTracks ==
    /\ pc = "put_matching_tracks"
    /\ StatusPut(SnapMatching(Len(allTracks)), NoOptions, "match_tracks")
    /\ UNCHANGED <<workerVars, remoteVars, response, likedVars, lastFmVars, matchVars, shuffleVars,
                   playlist, addVars>>

\* faulty variant: the applying_shuffle_logic stage is skipped
AfterMatchingSkipsShuffle(matched) ==
    IF Len(matched) = 0 THEN "put_completed_no_matches" ELSE "put_creating_playlist"

\* faulty variant: the empty match set is not short-circuited
AfterMatchingNoShortCircuit(matched) == "put_applying_shuffle_logic"

\* where the code goes once the matching loop has filled tracksWithPlayCounts
AfterMatching(matched) ==
    IF Len(matched) = 0 THEN "put_completed_no_matches" ELSE "put_applying_shuffle_logic"

\* the matching loop (index.ts 514-523)
MatchLikedTracks ==
    /\ pc = "match_tracks"
    /\ tracksWithPlayCounts' = MatchTracks(allTracks, lastFmPlayCountMap)
    /\ log' = Append(log, Event("match", "", Len(tracksWithPlayCounts'), TRUE))
    /\ pc' = AfterMatching(tracksWithPlayCounts')
    /\ UNCHANGED <<workerVars, remoteVars, kv, response, likedVars, lastFmVars,
                   lastFmPlayCountMap, shuffleVars, playlist, addVars, error>>

PutCompletedNoMatches ==
    /\ pc = "put_completed_no_matches"
    /\ StatusPut(SnapNoMatches, NoOptions, "done")
    /\ UNCHANGED <<workerVars, remoteVars, response, likedVars, lastFmVars, matchVars, shuffleVars,
                   playlist, addVars>>

PutApplyingShuffle ==
    /\ pc = "put_applying_shuffle_logic"
    /\ StatusPut(SnapApplyingShuffle, NoOptions, "apply_shuffle_logic")
    /\ level' = 0
    /\ cumulativePool' = <<>>
    /\ finalPlaylist' = <<>>
    /\ blocks' = <<>>
    /\ previousRun' = previousRun
    /\ UNCHANGED <<workerVars, remoteVars, response, likedVars, lastFmVars, matchVars, playlist,
                   addVars>>

\* applyShuffleLogic (index.ts 354-398): the early return on an empty input, else
\* the level loop, which has no suspension point, run in slices of at most
\* LevelsPerStep levels
ApplyShuffleLogic ==
    /\ pc = "apply_shuffle_logic"
    /\ level <= MaxPlayCount(tracksWithPlayCounts)
    /\ LET max == MaxPlayCount(tracksWithPlayCounts)
           last == IF level + LevelsPerStep - 1 < max THEN level + LevelsPerStep - 1 ELSE max
       IN /\ \E r \in ShuffleResults(tracksWithPlayCounts, level, last, cumulativePool,
                                     finalPlaylist, blocks) :
                /\ cumulativePool' = r.pool
                /\ finalPlaylist' = r.final
                /\ blocks' = r.blocks
          /\ previousRun' = previousRun
          /\ level' = last + 1
          /\ pc' = IF level' <= max THEN "apply_shuffle_logic" ELSE "put_creating_playlist"
    /\ UNCHANGED <<workerVars, remoteVars, kv, log, response, likedVars, lastFmVars, matchVars,
                   playlist, addVars, error>>

PutCreatingPlaylist ==
    /\ pc = "put_creating_playlist"
    /\ StatusPut(SnapCreatingPlaylist, NoOptions, "create_playlist")
    /\ UNCHANGED <<workerVars, remoteVars, response, likedVars, lastFmVars, matchVars, shuffleVars,
                   playlist, addVars>>

\* createPlaylist (index.ts 407-419, 553-556)
CreatePlaylist ==
    /\ pc = "create_playlist"
    /\ \/ /\ playlist' = [id |-> "playlist", url |-> "https://open.spotify.com/playlist"]
          /\ log' = Append(log, Event("create_playlist", "", 0, TRUE))
          /\ pc' = "put_adding_tracks"
          /\ error' = error
       \/ /\ playlist' = playlist
          /\ log' = Append(log, Event("create_playlist", "", 0, FALSE))
          /\ pc' = "catch"
          /\ error' = SpotifyError
    /\ UNCHANGED <<workerVars, remoteVars, kv, response, likedVars, lastFmVars, matchVars, shuffleVars,
                   addVars>>

\* the adding_tracks write, then the call of addTracksToPlaylist (index.ts 558-566)
PutAddingTracks ==
    /\ pc = "put_adding_tracks"
    /\ StatusPut(SnapAddingTracks(Len(finalPlaylist)), NoOptions, "add_tracks")
    /\ trackUris' = UrisOf(finalPlaylist)
    /\ maxRequests' = SPOTIFY_PLAYLIST_ADD_MAX_REQUESTS
    /\ requestCount' = 0
    /\ addIndex' = 0
    /\ UNCHANGED <<workerVars, remoteVars, response, likedVars, lastFmVars, matchVars, shuffleVars,
                   playlist, batches, warned>>

\* faulty variant: the budget test is off by one
AddLoopConditionOffByOne == addIndex < Len(trackUris) /\ requestCount <= maxRequests

\* the loop condition of addTracksToPlaylist (index.ts 434)
AddLoopCondition == addIndex < Len(trackUris) /\ requestCount < maxRequests

\* one iteration of the loop of addTracksToPlaylist (index.ts 434-442)
\* faulty variant: the request of a batch is not awaited, the loop goes on to the next
\* batch whether or not the endpoint has accepted this one
AddTracksBatchNotAwaited ==
    /\ pc = "add_tracks"
    /\ AddLoopCondition
    /\ LET batch == Slice(trackUris, addIndex, addIndex + batchSize)
       IN \/ /\ batches' = Append(batches, batch)
             /\ log' = Append(log, Event("add_tracks", "", Len(batch), TRUE))
          \/ /\ batches' = batches
             /\ log' = Append(log, Event("add_tracks", "", Len(batch), FALSE))
    /\ requestCount' = requestCount + 1
    /\ addIndex' = addIndex + batchSize
    /\ pc' = "add_tracks"
    /\ UNCHANGED <<workerVars, remoteVars, kv, response, likedVars, lastFmVars, matchVars,
                   shuffleVars, playlist, trackUris, maxRequests, warned, error>>

\* faulty variant: a batch the endpoint refuses is sent again
AddTracksBatchRetrying ==
    /\ pc = "add_tracks"
    /\ AddLoopCondition
    /\ LET batch == Slice(trackUris, addIndex, addIndex + batchSize)
       IN \/ /\ batches' = Append(batches, batch)
             /\ requestCount' = requestCount + 1
             /\ addIndex' = addIndex + batchSize
             /\ log' = Append(log, Event("add_tracks", "", Len(batch), TRUE))
          \/ /\ UNCHANGED <<batches, requestCount, addIndex>>
             /\ log' = Append(log, Event("add_tracks", "", Len(batch), FALSE))
    /\ pc' = "add_tracks"
    /\ UNCHANGED <<workerVars, remoteVars, kv, response, likedVars, lastFmVars, matchVars,
                   shuffleVars, playlist, trackUris, maxRequests, warned, error>>

AddTracksBatch ==
    /\ pc = "add_tracks"
    /\ AddLoopCondition
    /\ LET batch == Slice(trackUris, addIndex, addIndex + batchSize)
       IN \/ /\ batches' = Append(batches, batch)
             /\ requestCount' = requestCount + 1
             /\ addIndex' = addIndex + batchSize
             /\ log' = Append(log, Event("add_tracks", "", Len(batch), TRUE))
             /\ pc' = "add_tracks"
             /\ error' = error
          \/ /\ UNCHANGED <<batches, requestCount, addIndex>>
             /\ log' = Append(log, Event("add_tracks", "", Len(batch), FALSE))
             /\ pc' = "catch"
             /\ error' = SpotifyError
    /\ UNCHANGED <<workerVars, remoteVars, kv, response, likedVars, lastFmVars, matchVars, shuffleVars,
                   playlist, trackUris, maxRequests, warned>>

\* faulty variant: a sequence that fits the budget exactly counts as truncated
TruncatedAtLimit(count, max, uris) == count >= max /\ Len(uris) >= count * batchSize

\* the truncation test after the loop (index.ts 443)
Truncated(count, max, uris) == count >= max /\ Len(uris) > count * batchSize

\* the loop of addTracksToPlaylist ends; console.warn on truncation; return
AddTracksReturn ==
    /\ pc = "add_tracks"
    /\ ~AddLoopCondition
    /\ warned' = Truncated(requestCount, maxRequests, trackUris)
    /\ pc' = "put_completed"
    /\ UNCHANGED <<workerVars, remoteVars, kv, log, response, likedVars, lastFmVars, matchVars,
                   shuffleVars, playlist, trackUris, maxRequests, requestCount, addIndex,
                   batches, error>>

PutCompleted ==
    /\ pc = "put_completed"
    /\ StatusPut(SnapCompleted(playlist.url), ExpireOptions, "done")
    /\ UNCHANGED <<workerVars, remoteVars, response, likedVars, lastFmVars, matchVars, shuffleVars,
                   playlist, addVars>>

\* the catch block (index.ts 576-585): a throw of this put rejects the promise
PutFailed ==
    /\ pc = "catch"
    /\ \/ /\ kv' = [value |-> SnapFailed(error), options |-> ExpireOptions]
          /\ log' = Append(log, PutEvent(SnapFailed(error), ExpireOptions, TRUE))
          /\ pc' = "done"
       \/ /\ kv' = kv
          /\ log' = Append(log, PutEvent(SnapFailed(error), ExpireOptions, FALSE))
          /\ pc' = "rejected"
    /\ UNCHANGED <<workerVars, remoteVars, response, likedVars, lastFmVars, matchVars, shuffleVars,
                   playlist, addVars, error>>

\* faulty variant: the store evicts any entry, written with expirationTtl or not
ExpireAnyEntry ==
    /\ kv # NoEntry
    /\ kv' = NoEntry
    /\ UNCHANGED <<workerVars, remoteVars, pc, log, response, likedVars, lastFmVars, matchVars,
                   shuffleVars, playlist, addVars, error>>

\* the KV store evicts an entry written with expirationTtl once the time has passed
Expire ==
    /\ kv # NoEntry
    /\ "expirationTtl" \in DOMAIN kv.options
    /\ kv' = NoEntry
    /\ UNCHANGED <<workerVars, remoteVars, pc, log, response, likedVars, lastFmVars, matchVars,
                   shuffleVars, playlist, addVars, error>>

JobStep ==
    \/ PutFetchingLikedSongs
    \/ FetchLikedSongsPage
    \/ PutCompletedNoLikedSongs
    \/ PutFetchingLastFm
    \/ FetchLastFmPage
    \/ LastFmPageDelay
    \/ PutMatchingTracks
    \/ MatchLikedTracks
    \/ PutCompletedNoMatches
    \/ PutApplyingShuffle
    \/ ApplyShuffleLogic
    \/ PutCreatingPlaylist
    \/ CreatePlaylist
    \/ PutAddingTracks
    \/ AddTracksBatch
    \/ AddTracksReturn
    \/ PutCompleted
    \/ PutFailed

Next == TriggerPutPending \/ TriggerStart \/ JobStep \/ Expire

Spec == Init /\ [][Next]_vars

(***************************************************************************)
(* startPlaylistGeneration on its own: the trigger has stored pending,     *)
(* handed the job to event.waitUntil and answered 202                      *)
(***************************************************************************)
\* the entry of startPlaylistGeneration: pending is stored, 202 is answered
JobEntry ==
    /\ pc = "put_fetching_liked_songs"
    /\ kv = [value |-> SnapPending, options |-> NoOptions]
    /\ log = <<PutEvent(SnapPending, NoOptions, TRUE)>>
    /\ response = 202
    /\ nextUrl = 0
    /\ allTracks = <<>>
    /\ page = 0
    /\ totalPages = 0
    /\ allTopTracks = <<>>
    /\ lastFmPlayCountMap = EmptyMap
    /\ tracksWithPlayCounts = <<>>
    /\ level = 0
    /\ cumulativePool = <<>>
    /\ finalPlaylist = <<>>
    /\ blocks = <<>>
    /\ previousRun = NoRun
    /\ playlist = NoPlaylist
    /\ trackUris = <<>>
    /\ maxRequests = 0
    /\ requestCount = 0
    /\ addIndex = 0
    /\ batches = <<>>
    /\ warned = FALSE
    /\ error = NoError
    /\ WorkerIdle

InitJob ==
    /\ \/ likedPages \in LikedChoices /\ lastFmPages \in LastFmChoices
       \/ likedPages = LargeLiked /\ lastFmPages \in LargeLastFm
       \/ likedPages = << <<TrackA>> >> /\ lastFmPages \in MalformedLastFm
    /\ JobEntry

NextJob == JobStep \/ Expire

SpecJob == InitJob /\ [][NextJob]_vars

(***************************************************************************)
(* The job of a user with a liked catalog of many pages                    *)
(***************************************************************************)
\* a few catalogs that between them take the job down each of its paths
QueryInputs ==
    {<< << <<>> >>, << <<RecA0>> >> >>,
     << << <<TrackA>>, <<TrackC>> >>, << <<RecA0>>, <<RecZ1, RecA0>> >> >>,
     << << <<TrackA>> >>, << <<RecZ1>> >> >>}

ManyPages == 50

\* a catalog of ManyPages pages, none of whose tracks has a play count
ManyLikedPages == [k \in 1..ManyPages |-> <<TrackAB>>]

RequestInputs == QueryInputs \cup {<<ManyLikedPages, << <<RecZ1>> >> >>}

InitRequests ==
    /\ \E input \in RequestInputs : likedPages = input[1] /\ lastFmPages = input[2]
    /\ JobEntry

SpecRequests == InitRequests /\ [][NextJob]_vars

(***************************************************************************)
(* addTracksToPlaylist on its own: any identifier sequence, any budget     *)
(***************************************************************************)
InitAdd ==
    /\ likedPages = << <<>> >>
    /\ lastFmPages = << <<>> >>
    /\ pc = "add_tracks"
    /\ trackUris \in {[k \in 1..n |-> Uri(k)] : n \in 0..MaxUris}
    /\ maxRequests \in 0..MaxBudget
    /\ LocalsInit

NextAdd == AddTracksBatch \/ AddTracksReturn

SpecAdd == InitAdd /\ [][NextAdd]_vars

(***************************************************************************)
(* The matcher on its own (index.ts 498-523): any liked-track sequence,    *)
(* any record sequence                                                     *)
(***************************************************************************)
MatchTrackChoices == {TrackA, TrackAB, TrackC}
MatchRecordChoices == {RecA0, RecA2, RecAB1, RecZ1, RecC(1)}

InitMatch ==
    /\ likedPages = << <<>> >>
    /\ lastFmPages = << <<>> >>
    /\ pc = "build_play_count_map"
    /\ kv = NoEntry
    /\ log = <<>>
    /\ response = 0
    /\ nextUrl = 0
    /\ allTracks \in SeqsUpTo(MatchTrackChoices, MaxMatchTracks)
    /\ page = 0
    /\ totalPages = 0
    /\ allTopTracks \in SeqsUpTo(MatchRecordChoices, MaxMatchRecords)
    /\ lastFmPlayCountMap = EmptyMap
    /\ tracksWithPlayCounts = <<>>
    /\ level = 0
    /\ cumulativePool = <<>>
    /\ finalPlaylist = <<>>
    /\ blocks = <<>>
    /\ previousRun = NoRun
    /\ playlist = NoPlaylist
    /\ trackUris = <<>>
    /\ maxRequests = 0
    /\ requestCount = 0
    /\ addIndex = 0
    /\ batches = <<>>
    /\ warned = FALSE
    /\ error = NoError
    /\ WorkerIdle

\* the loop that fills lastFmPlayCountMap from lastFmTopTracks (index.ts 498-505)
BuildLastFmPlayCountMap ==
    /\ pc = "build_play_count_map"
    /\ LastFmReturn(allTopTracks)
    /\ log' = log \o MapLoopEvents(allTopTracks)
    /\ UNCHANGED <<workerVars, remoteVars, kv, response, likedVars, lastFmVars,
                   tracksWithPlayCounts, shuffleVars, playlist, addVars>>

NextMatch == BuildLastFmPlayCountMap \/ PutMatchingTracks \/ MatchLikedTracks

SpecMatch == InitMatch /\ [][NextMatch]_vars

(***************************************************************************)
(* applyShuffleLogic on its own (index.ts 354-398): any sequence of        *)
(* distinct matched tracks, the empty one included, any play counts        *)
(***************************************************************************)
\* the k-th matched track of an input, before its play count is attached
ShuffleTrack(k) ==
    [id |-> <<"track", k>>, name |-> <<"X">>, artists |-> << <<"A">> >>, uri |-> Uri(k)]

ShuffleInputsOfLength(n, maxCount) ==
    {[k \in 1..n |-> WithPlayCount(ShuffleTrack(k), counts[k])] :
         counts \in [1..n -> 0..maxCount]}

ShuffleInputs == UNION {ShuffleInputsOfLength(n, MaxShuffleCount) : n \in 0..MaxShuffleTracks}

InitShuffle ==
    /\ likedPages = << <<>> >>
    /\ lastFmPages = << <<>> >>
    /\ pc = "apply_shuffle_logic"
    /\ kv = NoEntry
    /\ log = <<>>
    /\ response = 0
    /\ nextUrl = 0
    /\ allTracks = <<>>
    /\ page = 0
    /\ totalPages = 0
    /\ allTopTracks = <<>>
    /\ lastFmPlayCountMap = EmptyMap
    /\ tracksWithPlayCounts \in ShuffleInputs
    /\ level = 0
    /\ cumulativePool = <<>>
    /\ finalPlaylist = <<>>
    /\ blocks = <<>>
    /\ previousRun = NoRun
    /\ playlist = NoPlaylist
    /\ trackUris = <<>>
    /\ maxRequests = 0
    /\ requestCount = 0
    /\ addIndex = 0
    /\ batches = <<>>
    /\ warned = FALSE
    /\ error = NoError
    /\ WorkerIdle

NextShuffle == ApplyShuffleLogic

SpecShuffle == InitShuffle /\ [][NextShuffle]_vars

(***************************************************************************)
(* applyShuffleLogic run twice on one input: the first result is kept in   *)
(* previousRun, the second run makes its own random choices                *)
(***************************************************************************)
ShuffleTwiceInputs == UNION {ShuffleInputsOfLength(n, MaxTwiceCount) : n \in 0..MaxTwiceTracks}

InitShuffleTwice ==
    /\ likedPages = << <<>> >>
    /\ lastFmPages = << <<>> >>
    /\ pc = "apply_shuffle_logic"
    /\ kv = NoEntry
    /\ log = <<>>
    /\ response = 0
    /\ nextUrl = 0
    /\ allTracks = <<>>
    /\ page = 0
    /\ totalPages = 0
    /\ allTopTracks = <<>>
    /\ lastFmPlayCountMap = EmptyMap
    /\ tracksWithPlayCounts \in ShuffleTwiceInputs
    /\ level = 0
    /\ cumulativePool = <<>>
    /\ finalPlaylist = <<>>
    /\ blocks = <<>>
    /\ previousRun = NoRun
    /\ playlist = NoPlaylist
    /\ trackUris = <<>>
    /\ maxRequests = 0
    /\ requestCount = 0
    /\ addIndex = 0
    /\ batches = <<>>
    /\ warned = FALSE
    /\ error = NoError
    /\ WorkerIdle

\* applyShuffleLogic(tracksWithPlayCounts) is called once more with the same argument
ApplyShuffleLogicAgain ==
    /\ pc = "put_creating_playlist"
    /\ previousRun = NoRun
    /\ previousRun' = [final |-> finalPlaylist, blocks |-> blocks]
    /\ level' = 0
    /\ cumulativePool' = <<>>
    /\ finalPlaylist' = <<>>
    /\ blocks' = <<>>
    /\ pc' = "apply_shuffle_logic"
    /\ UNCHANGED <<workerVars, remoteVars, kv, log, response, likedVars, lastFmVars, matchVars,
                   playlist, addVars, error>>

NextShuffleTwice == ApplyShuffleLogic \/ ApplyShuffleLogicAgain

SpecShuffleTwice == InitShuffleTwice /\ [][NextShuffleTwice]_vars

(***************************************************************************)
(* The job with a client polling /status/<processId> while it runs         *)
(***************************************************************************)
InitQuery ==
    /\ \E input \in QueryInputs : likedPages = input[1] /\ lastFmPages = input[2]
    /\ pc = "put_pending"
    /\ trackUris = <<>>
    /\ maxRequests = 0
    /\ LocalsInit

NextQuery == Next \/ StatusQuery

SpecQuery == InitQuery /\ [][NextQuery]_vars

(***************************************************************************)
(* handleRequest as a whole: every handler that touches SPOTIFY_TOKENS,    *)
(* for the userId values clients send and several runs at once.  A run is  *)
(* reduced to its accesses to the store: the puts of                       *)
(* startPlaylistGeneration in their order, each followed by the outcome of *)
(* the work up to the next put.  A handler whose put throws answers 500    *)
(* and leaves the store as it was, which is a stuttering step here.        *)
(***************************************************************************)
STATUS_KEY_PREFIX == "playlist_status_"
LASTFM_REQUEST_TOKEN_PREFIX == "lastfm_req_token_"
RequestTokenTtl == 300

\* generateRandomString(20) draws every character with Math.random(): any string over
\* the alphabet can come out, and two calls can return the same one
ProcessIdChoices == {"p1", "p2"}

\* the userId of a request is whatever its cookie carries (/userId=([^;]+)/)
UserIdChoices == {"u1", "playlist_status_p1"}

StoreGet(s, key) == IF key \in DOMAIN s THEN s[key] ELSE NoEntry

\* SPOTIFY_TOKENS.put(key, value, options); by names the caller (history only)
StorePut(s, key, value, options, by) ==
    [k \in DOMAIN s \cup {key} |->
        IF k = key THEN [value |-> value, options |-> options, by |-> by] ELSE s[k]]

StoreDelete(s, key) == [k \in DOMAIN s \ {key} |-> s[k]]

Caller(name, j) == [handler |-> name, run |-> j]

\* userCreds = existingCredsStr ? JSON.parse(existingCredsStr) : {}; userCreds[field] = x
WithCredentials(entry, field, x) ==
    LET userCreds == IF entry = NoEntry THEN [f \in {} |-> 0] ELSE entry.value
    IN [f \in DOMAIN userCreds \cup {field} |-> IF f = field THEN x ELSE userCreds[f]]

SpotifyTokens == [access_token |-> "access", refresh_token |-> "refresh"]
LastFmSession == [username |-> "user", sessionKey |-> "session"]
RequestToken == [token |-> "token"]

\* a handler that has read a value and has not answered yet
Request(handler, userId, at, read) ==
    [handler |-> handler, userId |-> userId, at |-> at, read |-> read]

\* existingCredsStr / userCredsStr: what SPOTIFY_TOKENS.get(key) returns
ReadEntry(s, key) == IF key \in DOMAIN s THEN [value |-> s[key].value] ELSE NoEntry

\* a new request is taken on the first connection without a request
Accepts(c) ==
    /\ requests[c] = Idle
    /\ \A d \in Connections : requests[d] = Idle => c <= d

Answered(c) == requests' = [requests EXCEPT ![c] = Idle]

\* path /callback with a code Spotify accepts, up to the await of
\* SPOTIFY_TOKENS.get(userId) (index.ts 628-671)
SpotifyCallbackGet(c, userId) ==
    /\ Accepts(c)
    /\ requests' = [requests EXCEPT ![c] =
                       Request("callback", userId, "put", ReadEntry(store, userId))]
    /\ UNCHANGED <<remoteVars, jobLocals, statusResponse, shuffleResponse, store, runs>>

\* path /callback from the entry it has read: the Spotify part is set in what was
\* read and the result is put, or the put throws (index.ts 672-685)
SpotifyCallbackPut(c) ==
    /\ requests[c].handler = "callback"
    /\ \/ store' = StorePut(store, requests[c].userId,
                            WithCredentials(requests[c].read, "spotify", SpotifyTokens),
                            NoOptions, Caller("callback", 0))
       \/ store' = store    \* the put throws: outer catch, 500 (index.ts 886-893)
    /\ Answered(c)
    /\ UNCHANGED <<remoteVars, jobLocals, statusResponse, shuffleResponse, runs>>

\* path /callback (index.ts 628-686): one step for each access to SPOTIFY_TOKENS
SpotifyCallback(c, userId) == SpotifyCallbackGet(c, userId) \/ SpotifyCallbackPut(c)

\* path /lastfm-login (index.ts 688-721): its one access to SPOTIFY_TOKENS is the put
LastFmLogin(userId) ==
    /\ store' = StorePut(store, LASTFM_REQUEST_TOKEN_PREFIX \o userId, RequestToken,
                         [expirationTtl |-> RequestTokenTtl], Caller("lastfm-login", 0))
    /\ UNCHANGED <<remoteVars, jobLocals, statusResponse, shuffleResponse, requests, runs>>

\* path /lastfm-callback: the get of the request token, which is the one stored for
\* the userId (index.ts 723-739)
LastFmCallbackGetToken(c, userId) ==
    /\ Accepts(c)
    /\ StoreGet(store, LASTFM_REQUEST_TOKEN_PREFIX \o userId) # NoEntry
    /\ requests' = [requests EXCEPT ![c] =
                       Request("lastfm-callback", userId, "delete", NoEntry)]
    /\ UNCHANGED <<remoteVars, jobLocals, statusResponse, shuffleResponse, store, runs>>

\* await SPOTIFY_TOKENS.delete(LASTFM_REQUEST_TOKEN_PREFIX + userId) (index.ts 741)
LastFmCallbackDelete(c) ==
    /\ requests[c].handler = "lastfm-callback"
    /\ requests[c].at = "delete"
    /\ \/ /\ store' = StoreDelete(store, LASTFM_REQUEST_TOKEN_PREFIX \o requests[c].userId)
          /\ requests' = [requests EXCEPT ![c].at = "get_session"]
       \/ \* the delete throws: outer catch, 500 (index.ts 886-893)
          /\ store' = store
          /\ Answered(c)
    /\ UNCHANGED <<remoteVars, jobLocals, statusResponse, shuffleResponse, runs>>

\* auth.getSession fails and the handler answers 500, or it gives a session and the
\* handler awaits SPOTIFY_TOKENS.get(userId) (index.ts 743-765)
LastFmCallbackGet(c) ==
    /\ requests[c].handler = "lastfm-callback"
    /\ requests[c].at = "get_session"
    /\ \/ Answered(c)
       \/ requests' = [requests EXCEPT ![c].at = "put",
                                       ![c].read = ReadEntry(store, requests[c].userId)]
    /\ UNCHANGED <<remoteVars, jobLocals, statusResponse, shuffleResponse, store, runs>>

\* the Last.fm part is set in what was read and the result is put (index.ts 766-777)
LastFmCallbackPut(c) ==
    /\ requests[c].handler = "lastfm-callback"
    /\ requests[c].at = "put"
    /\ \/ store' = StorePut(store, requests[c].userId,
                            WithCredentials(requests[c].read, "lastFm", LastFmSession),
                            NoOptions, Caller("lastfm-callback", 0))
       \/ store' = store    \* the put throws: outer catch, 500 (index.ts 886-893)
    /\ Answered(c)
    /\ UNCHANGED <<remoteVars, jobLocals, statusResponse, shuffleResponse, runs>>

\* path /lastfm-callback (index.ts 723-781): one step for each access to
\* SPOTIFY_TOKENS
LastFmCallback(c, userId) ==
    \/ LastFmCallbackGetToken(c, userId)
    \/ LastFmCallbackDelete(c)
    \/ LastFmCallbackGet(c)
    \/ LastFmCallbackPut(c)

\* faulty variant: the status entry of a run is keyed by the user
RunStatusKeyOfUser(run) == STATUS_KEY_PREFIX \o run.userId

\* const statusKey = STATUS_KEY_PREFIX + processId (index.ts 470, 817)
RunStatusKey(run) == STATUS_KEY_PREFIX \o run.processId

\* faulty variant: the Last.fm credentials are not looked at
HasLastFmSessionUnchecked(userCreds) == TRUE

\* userCreds.spotify?.access_token is truthy
HasSpotifyAccessToken(userCreds) ==
    /\ "spotify" \in DOMAIN userCreds
    /\ "access_token" \in DOMAIN userCreds.spotify
    /\ userCreds.spotify.access_token # ""

\* userCreds.lastFm?.username and userCreds.lastFm?.sessionKey are truthy
HasLastFmSession(userCreds) ==
    /\ "lastFm" \in DOMAIN userCreds
    /\ {"username", "sessionKey"} \subseteq DOMAIN userCreds.lastFm
    /\ userCreds.lastFm.username # ""
    /\ userCreds.lastFm.sessionKey # ""

\* the Response of /shuffle; profile tells what became of the request for /me
ShuffleAnswer(status, profile) == [status |-> status, profile |-> profile]

ShufflesInFlight == Cardinality({c \in Connections : requests[c].handler = "shuffle"})

\* path /shuffle up to the await of the request for /me (index.ts 783-813): the entry
\* of the userId is read; without an entry, without a Spotify access token or without
\* a Last.fm session the answer is 401.  slots are the runs the specification starts
ShuffleGet(c, userId, slots) ==
    /\ Accepts(c)
    /\ Len(runs) + ShufflesInFlight + 1 \in slots
    /\ LET entry == ReadEntry(store, userId)
       IN IF \/ entry = NoEntry
             \/ ~HasSpotifyAccessToken(entry.value)
             \/ ~HasLastFmSession(entry.value)
          THEN /\ shuffleResponse' = ShuffleAnswer(401, "none")
               /\ UNCHANGED requests
          ELSE /\ requests' = [requests EXCEPT ![c] = Request("shuffle", userId, "me", entry)]
               /\ UNCHANGED shuffleResponse
    /\ UNCHANGED <<remoteVars, jobLocals, statusResponse, store, runs>>

\* path /shuffle from the answer to /me (index.ts 813-843, 886-893): a call that
\* throws gives 500; otherwise a processId is generated, pending is stored under
\* its key, the run is handed to event.waitUntil and the answer is 202
ShuffleStart(c) ==
    /\ requests[c].handler = "shuffle"
    /\ \/ \* spotifyApiFetch(/me) throws
          /\ shuffleResponse' = ShuffleAnswer(500, "failed")
          /\ UNCHANGED <<store, runs>>
       \/ \* the put of pending throws
          /\ shuffleResponse' = ShuffleAnswer(500, "ok")
          /\ UNCHANGED <<store, runs>>
       \/ \E processId \in ProcessIdChoices :
             LET run == [userId |-> requests[c].userId, processId |-> processId,
                         pc |-> "put_fetching_liked_songs", stored |-> SnapPending,
                         error |-> NoError, kept |-> 0]
             IN /\ store' = StorePut(store, RunStatusKey(run), SnapPending,
                                     NoOptions, Caller("shuffle", Len(runs) + 1))
                /\ runs' = Append(runs, run)
                /\ shuffleResponse' = ShuffleAnswer(202, "ok")
    /\ Answered(c)
    /\ UNCHANGED <<remoteVars, jobLocals, statusResponse>>

\* path /shuffle (index.ts 783-846): the get of the credentials, then the start
ShuffleRequest(c, userId, slots) == ShuffleGet(c, userId, slots) \/ ShuffleStart(c)

\* the pages of a fetcher concatenated in page order (allTracks.concat, index.ts 269)
RECURSIVE Flatten(_)
Flatten(ss) == IF ss = <<>> THEN <<>> ELSE Head(ss) \o Flatten(Tail(ss))

\* likedTracks of a run: fetchAllLikedSongs returned
RunLikedTracks == Flatten(likedPages)

\* tracksWithPlayCounts of a run whose Last.fm fetch kept the records of run.kept pages
RunMatched(run) ==
    MatchTracks(RunLikedTracks,
                BuildPlayCountMap(Flatten(SubSeq(lastFmPages, 1, run.kept)), EmptyMap))

\* shuffledTracks.length of the run (index.ts 544, 560)
RunShuffledLength(run) ==
    LET matched == RunMatched(run)
        results == ShuffleResults(matched, 0, MaxPlayCount(matched), <<>>, <<>>, <<>>)
    IN Len((CHOOSE r \in results : TRUE).final)

\* the run after fetchLastFmTopTracks kept the records of kept pages and the loop
\* over them built the map (index.ts 498-505), or threw a TypeError
RunAfterLastFm(run, kept) ==
    IF FirstThrow(Flatten(SubSeq(lastFmPages, 1, kept))) = 0
    THEN [pc |-> "put_matching_tracks", kept |-> kept, error |-> run.error]
    ELSE [pc |-> "catch", kept |-> kept, error |-> TypeError]

\* the puts of startPlaylistGeneration (index.ts 473-585): what the run writes where
\* it stands, and where it can stand once the write is stored and the work that
\* follows it is done
RunPutSite(run) ==
    LET at == run.pc
        on(next) == [pc |-> next, kept |-> run.kept, error |-> run.error]
        thrown == [pc |-> "catch", kept |-> run.kept, error |-> SpotifyError]
    IN CASE at = "put_fetching_liked_songs" ->
              [snapshot |-> SnapFetchingLikedSongs, options |-> NoOptions,
               after |-> {on(AfterLikedSongs(RunLikedTracks)), thrown}]
         [] at = "put_completed_no_liked_songs" ->
              [snapshot |-> SnapNoLikedSongs, options |-> NoOptions,
               after |-> {on("done")}]
         [] at = "put_fetching_lastfm_top_tracks" ->
              [snapshot |-> SnapFetchingLastFm, options |-> NoOptions,
               after |-> {RunAfterLastFm(run, kept) : kept \in 0..Len(lastFmPages)}]
         [] at = "put_matching_tracks" ->
              [snapshot |-> SnapMatching(Len(RunLikedTracks)), options |-> NoOptions,
               after |-> {on(AfterMatching(RunMatched(run)))}]
         [] at = "put_completed_no_matches" ->
              [snapshot |-> SnapNoMatches, options |-> NoOptions,
               after |-> {on("done")}]
         [] at = "put_applying_shuffle_logic" ->
              [snapshot |-> SnapApplyingShuffle, options |-> NoOptions,
               after |-> {on("put_creating_playlist")}]
         [] at = "put_creating_playlist" ->
              [snapshot |-> SnapCreatingPlaylist, options |-> NoOptions,
               after |-> {on("put_adding_tracks"), thrown}]
         [] at = "put_adding_tracks" ->
              [snapshot |-> SnapAddingTracks(RunShuffledLength(run)),
               options |-> NoOptions, after |-> {on("put_completed"), thrown}]
         [] at = "put_completed" ->
              [snapshot |-> SnapCompleted("https://open.spotify.com/playlist"),
               options |-> ExpireOptions, after |-> {on("done")}]
         [] at = "catch" ->
              [snapshot |-> SnapFailed(run.error), options |-> ExpireOptions,
               after |-> {on("done")}]

\* run j performs its next put: the write is stored and the work that follows leads to
\* the next put (or throws), or the put throws
RunPut(j) ==
    /\ j \in 1..Len(runs)
    /\ runs[j].pc \notin {"done", "rejected"}
    /\ LET run == runs[j]
           site == RunPutSite(run)
       IN \/ /\ store' = StorePut(store, RunStatusKey(run), site.snapshot, site.options,
                                  Caller("job", j))
             /\ \E next \in site.after :
                   runs' = [runs EXCEPT ![j] =
                               [run EXCEPT !.pc = next.pc, !.stored = site.snapshot,
                                           !.kept = next.kept, !.error = next.error]]
          \/ /\ store' = store
             /\ runs' = [runs EXCEPT ![j] =
                            [run EXCEPT !.pc = IF run.pc = "catch" THEN "rejected"
                                               ELSE "catch",
                                        !.error = IF run.pc = "catch" THEN run.error
                                                  ELSE KvError]]
    /\ UNCHANGED <<remoteVars, jobLocals, statusResponse, shuffleResponse, requests>>

\* path /status/<processId> (index.ts 848-862) against the whole store
StatusRequest(processId) ==
    /\ statusResponse' =
           StatusQueryAnswer(processId, StoreGet(store, STATUS_KEY_PREFIX \o processId))
    /\ UNCHANGED <<remoteVars, jobLocals, shuffleResponse, requests, store, runs>>

\* the store evicts an entry written with expirationTtl once the time has passed
EntryExpires(key) ==
    /\ key \in DOMAIN store
    /\ "expirationTtl" \in DOMAIN store[key].options
    /\ store' = StoreDelete(store, key)
    /\ UNCHANGED <<remoteVars, jobLocals, statusResponse, shuffleResponse, requests, runs>>

\* the catalogs the runs of the worker work on: the three of QueryInputs, one with
\* two liked tracks that are matched by records of different pages, and one whose
\* second Last.fm page has an entry without artist name
RunCatalogs ==
    QueryInputs \cup {<< << <<TrackAB, TrackA>> >>, << <<RecAB1>>, <<RecA0>> >> >>,
                      << << <<TrackA>> >>, << <<RecA0>>, <<RecNoArtist>> >> >>}

\* every handler, with requests of one user overlapping, one run
InitWorker ==
    /\ likedPages = << <<TrackAB, TrackA>> >>
    /\ lastFmPages = << <<RecAB1, RecA0>> >>
    /\ pc = "handle_request"
    /\ trackUris = <<>>
    /\ maxRequests = 0
    /\ LocalsInit

NextWorker ==
    \/ \E c \in Connections : SpotifyCallback(c, "u1")
    \/ LastFmLogin("u1")
    \/ \E c \in Connections : LastFmCallback(c, "u1")
    \/ \E c \in Connections : ShuffleRequest(c, "u1", {1})
    \/ RunPut(1)
    \/ \E processId \in ProcessIdChoices : StatusRequest(processId)
    \/ \E key \in DOMAIN store : EntryExpires(key)

SpecWorker == InitWorker /\ [][NextWorker]_vars

\* the record a user has once the handlers named in fields have stored their part
Credentials(fields) ==
    [f \in fields |-> IF f = "spotify" THEN SpotifyTokens ELSE LastFmSession]

\* the store after the logins of userId that fields names
LoggedIn(s, userId, fields) ==
    IF fields = {} THEN s
    ELSE StorePut(s, userId, Credentials(fields), NoOptions,
                  Caller(IF "lastFm" \in fields THEN "lastfm-callback" ELSE "callback", 0))

\* the worker with no request under way, no run, and the clients u1 and
\* playlist_status_p1 logged in to the services that first and second name
ClientsInit(first, second) ==
    /\ likedPages = << <<TrackAB, TrackA>> >>
    /\ lastFmPages = << <<RecAB1, RecA0>> >>
    /\ pc = "handle_request"
    /\ trackUris = <<>>
    /\ maxRequests = 0
    /\ kv = NoEntry
    /\ log = <<>>
    /\ response = 0
    /\ nextUrl = 0
    /\ allTracks = <<>>
    /\ page = 0
    /\ totalPages = 0
    /\ allTopTracks = <<>>
    /\ lastFmPlayCountMap = EmptyMap
    /\ tracksWithPlayCounts = <<>>
    /\ level = 0
    /\ cumulativePool = <<>>
    /\ finalPlaylist = <<>>
    /\ blocks = <<>>
    /\ previousRun = NoRun
    /\ playlist = NoPlaylist
    /\ requestCount = 0
    /\ addIndex = 0
    /\ batches = <<>>
    /\ warned = FALSE
    /\ error = NoError
    /\ statusResponse = NoResponse
    /\ shuffleResponse = NoResponse
    /\ requests = [c \in Connections |-> Idle]
    /\ store = LoggedIn(LoggedIn(NoStore, "u1", first), "playlist_status_p1", second)
    /\ runs = <<>>

\* clients sending any userId, of whom u1 has logged in to any of the two services,
\* log in to Spotify, ask for a shuffle and for the status, with requests overlapping;
\* the run that /shuffle starts performs its puts and the store evicts entries
InitClients ==
    \E first \in SUBSET {"spotify", "lastFm"} : ClientsInit(first, {})

NextClients ==
    \/ \E c \in Connections, userId \in UserIdChoices : ShuffleRequest(c, userId, {1})
    \/ \E c \in Connections, userId \in UserIdChoices : SpotifyCallback(c, userId)
    \/ \E processId \in ProcessIdChoices : StatusRequest(processId)
    \/ RunPut(1)
    \/ \E key \in DOMAIN store : EntryExpires(key)

SpecClients == InitClients /\ [][NextClients]_vars

\* clients sending any userId, each logged in to any of the two services, ask for
\* shuffles with requests overlapping; the runs that /shuffle starts perform their
\* puts and the store evicts entries
InitTrigger ==
    \E first, second \in SUBSET {"spotify", "lastFm"} : ClientsInit(first, second)

NextTrigger ==
    \/ \E c \in Connections, userId \in UserIdChoices : ShuffleRequest(c, userId, {1, 2})
    \/ \E j \in {1, 2} : RunPut(j)
    \/ \E key \in DOMAIN store : EntryExpires(key)

SpecTrigger == InitTrigger /\ [][NextTrigger]_vars

\* one user who has logged in to both services starts two runs
InitRuns ==
    /\ \E input \in RunCatalogs : likedPages = input[1] /\ lastFmPages = input[2]
    /\ pc = "handle_request"
    /\ kv = NoEntry
    /\ log = <<>>
    /\ response = 0
    /\ nextUrl = 0
    /\ allTracks = <<>>
    /\ page = 0
    /\ totalPages = 0
    /\ allTopTracks = <<>>
    /\ lastFmPlayCountMap = EmptyMap
    /\ tracksWithPlayCounts = <<>>
    /\ level = 0
    /\ cumulativePool = <<>>
    /\ finalPlaylist = <<>>
    /\ blocks = <<>>
    /\ previousRun = NoRun
    /\ playlist = NoPlaylist
    /\ trackUris = <<>>
    /\ maxRequests = 0
    /\ requestCount = 0
    /\ addIndex = 0
    /\ batches = <<>>
    /\ warned = FALSE
    /\ error = NoError
    /\ statusResponse = NoResponse
    /\ shuffleResponse = NoResponse
    /\ requests = [c \in Connections |-> Idle]
    /\ store = StorePut(StorePut(NoStore, "u1",
                                 WithCredentials(NoEntry, "spotify", SpotifyTokens),
                                 NoOptions, Caller("callback", 0)),
                        "u1",
                        WithCredentials([value |-> WithCredentials(NoEntry, "spotify",
                                                                   SpotifyTokens)],
                                        "lastFm", LastFmSession),
                        NoOptions, Caller("lastfm-callback", 0))
    /\ runs = <<>>

NextRuns ==
    \/ \E c \in Connections : ShuffleRequest(c, "u1", {1, 2})
    \/ \E j \in {1, 2} : RunPut(j)
    \/ \E key \in DOMAIN store : EntryExpires(key)

SpecRuns == InitRuns /\ [][NextRuns]_vars


(***************************************************************************)
(* Reading the history                                                     *)
(***************************************************************************)
StageOrder ==
    <<"pending", "fetching_liked_songs", "fetching_lastfm_top_tracks", "matching_tracks",
      "applying_shuffle_logic", "creating_playlist", "adding_tracks", "completed">>

TerminalStates == {"completed", "failed"}

IsPut(e) == e.op = "put"
IsStoredPut(e) == e.op = "put" /\ e.ok

\* the states of the snapshots stored for the job, in order
WrittenStates ==
    LET puts == SelectSeq(log, IsStoredPut) IN [k \in 1..Len(puts) |-> puts[k].status]

\* the state of the snapshot stored last before event k of the log ("" if none)
RECURSIVE StoredBefore(_)
StoredBefore(k) ==
    IF k <= 1 THEN ""
    ELSE IF IsStoredPut(log[k - 1]) THEN log[k - 1].status ELSE StoredBefore(k - 1)

\* the index of the last event of the log with the given op (0 if none)
RECURSIVE LastIndexUpTo(_, _)
LastIndexUpTo(op, k) ==
    IF k = 0 THEN 0 ELSE IF log[k].op = op THEN k ELSE LastIndexUpTo(op, k - 1)

LastIndex(op) == LastIndexUpTo(op, Len(log))

Ops(S) == {k \in 1..Len(log) : log[k].op \in S}

RunEnded == pc \in {"done", "rejected"}

Min(a, b) == IF a < b THEN a ELSE b

CeilDiv(a, b) == (a + b - 1) \div b

(***************************************************************************)
(* C1: the states stored for one job start with pending and follow the     *)
(* fixed stage order; no state is stored twice, none is skipped except by  *)
(* the short-circuit to completed after fetching_liked_songs (empty        *)
(* catalog) or after matching_tracks (empty match set), and failed is      *)
(* stored at most once, last, after a non-terminal state.                  *)
(***************************************************************************)
NextInOrder(a, b) == \E i \in 1..(Len(StageOrder) - 1) : a = StageOrder[i] /\ b = StageOrder[i + 1]

C1_StageOrder ==
    LET w == WrittenStates
    IN /\ w # <<>> => w[1] = "pending"
       /\ \A j, k \in 1..Len(w) : j # k => w[j] # w[k]
       /\ \A k \in 1..(Len(w) - 1) :
            \/ NextInOrder(w[k], w[k + 1])
            \/ /\ w[k] = "fetching_liked_songs" /\ w[k + 1] = "completed"
               /\ Len(allTracks) = 0
            \/ /\ w[k] = "matching_tracks" /\ w[k + 1] = "completed"
               /\ Len(tracksWithPlayCounts) = 0
            \/ /\ w[k + 1] = "failed" /\ w[k] \notin TerminalStates
               /\ k + 1 = Len(w)

C1_Witness ==
    /\ pc = "done"
    /\ WrittenStates = StageOrder

(***************************************************************************)
(* C2: once the run of startPlaylistGeneration of a started job has ended, *)
(* a terminal snapshot (completed or failed) has been stored under its     *)
(* processId.                                                              *)
(***************************************************************************)
C2_TerminalSnapshot ==
    RunEnded => \E k \in 1..Len(log) : IsStoredPut(log[k]) /\ log[k].status \in TerminalStates

(***************************************************************************)
(* C3: a stored completed or failed snapshot is the last event of the job: *)
(* no put and no outbound call follows it, and the run has ended.          *)
(***************************************************************************)
C3_TerminalAbsorbing ==
    \A k \in 1..Len(log) :
        (IsStoredPut(log[k]) /\ log[k].status \in TerminalStates) =>
            k = Len(log) /\ pc = "done"

C3_Witness ==
    /\ pc = "done"
    /\ playlist # NoPlaylist
    /\ batches # <<>>
    /\ log[Len(log)].op = "put" /\ log[Len(log)].status = "completed" /\ log[Len(log)].ok

(***************************************************************************)
(* C4: when a failure was raised inside the try block and the run has      *)
(* ended, exactly one failed snapshot was stored, it carries the message   *)
(* of the failure, and nothing but the failed write followed the failure.  *)
(***************************************************************************)
FailedPuts == {k \in 1..Len(log) : IsStoredPut(log[k]) /\ log[k].status = "failed"}

C4_OneFailedSnapshot ==
    (RunEnded /\ error # NoError) =>
        /\ Cardinality(FailedPuts) = 1
        /\ kv # NoEntry => (kv.value.status = "failed" /\ kv.value.error = error.message)
        /\ \A k \in 1..(Len(log) - 1) :
              (~log[k].ok /\ log[k].op # "lastfm_page") =>
                  (log[k + 1].op = "put" /\ log[k + 1].status = "failed")

(***************************************************************************)
(* C5: the snapshot naming a stage is stored before any work of that stage *)
(* starts, and is the stored snapshot while the stage works: every page    *)
(* request, playlist creation and add-tracks call is made while the status *)
(* entry holds its stage, and matching and shuffling have produced nothing *)
(* before matching_tracks and applying_shuffle_logic were stored.          *)
(***************************************************************************)
StageOfOp(op) ==
    CASE op = "liked_songs_page" -> "fetching_liked_songs"
      [] op = "lastfm_page" -> "fetching_lastfm_top_tracks"
      [] op = "delay" -> "fetching_lastfm_top_tracks"
      [] op = "play_count_map" -> "fetching_lastfm_top_tracks"
      [] op = "match" -> "matching_tracks"
      [] op = "create_playlist" -> "creating_playlist"
      [] op = "add_tracks" -> "adding_tracks"

StageOfPc ==
    CASE pc = "fetch_liked_songs" -> "fetching_liked_songs"
      [] pc \in {"fetch_lastfm_top_tracks", "lastfm_page_delay"} -> "fetching_lastfm_top_tracks"
      [] pc = "match_tracks" -> "matching_tracks"
      [] pc = "apply_shuffle_logic" -> "applying_shuffle_logic"
      [] pc = "create_playlist" -> "creating_playlist"
      [] pc = "add_tracks" -> "adding_tracks"
      [] OTHER -> ""

Stored(status) == \E k \in 1..Len(log) : IsStoredPut(log[k]) /\ log[k].status = status

C5_SnapshotBeforeWork ==
    /\ \A k \in 1..Len(log) : log[k].op # "put" => StoredBefore(k) = StageOfOp(log[k].op)
    /\ StageOfPc # "" => (kv # NoEntry /\ kv.value.status = StageOfPc)
    /\ tracksWithPlayCounts # <<>> => Stored("matching_tracks")
    /\ (level > 0 \/ cumulativePool # <<>> \/ finalPlaylist # <<>>) =>
           Stored("applying_shuffle_logic")
    /\ playlist # NoPlaylist => Stored("creating_playlist")
    /\ batches # <<>> => Stored("adding_tracks")

C5_Witness ==
    /\ pc = "add_tracks"
    /\ batches # <<>>
    /\ kv # NoEntry /\ kv.value.status = "adding_tracks"
    /\ Ops({"liked_songs_page"}) # {} /\ Ops({"lastfm_page"}) # {} /\ Ops({"match"}) # {}
    /\ finalPlaylist # <<>>

(***************************************************************************)
(* C6: after a liked-songs fetch that returned no track, the job attempts  *)
(* the completed write (message: no liked songs found) and nothing else,   *)
(* except the failed write when the completed write throws: no Last.fm     *)
(* page is requested, no playlist is created, no add-tracks call is made.  *)
(***************************************************************************)
CatalogFetched == nextUrl = 0 /\ LastIndex("liked_songs_page") > 0 /\ log[LastIndex("liked_songs_page")].ok

EmptyCatalog == CatalogFetched /\ Len(allTracks) = 0

\* the events that follow event k of the log
After(k) == SubSeq(log, k + 1, Len(log))

\* a short-circuit tail: the completed write and, only if it threw, the failed write
ShortCircuitTail(tail, snapshot) ==
    /\ Len(tail) <= 2
    /\ Len(tail) >= 1 =>
          /\ tail[1].op = "put" /\ tail[1].status = "completed" /\ ~tail[1].ttl
          /\ (tail[1].ok /\ kv # NoEntry) => kv.value = snapshot
    /\ Len(tail) = 2 => (~tail[1].ok /\ tail[2].op = "put" /\ tail[2].status = "failed")

NoPublish ==
    /\ Ops({"create_playlist", "add_tracks"}) = {}
    /\ playlist = NoPlaylist
    /\ batches = <<>>

C6_EmptyCatalog ==
    EmptyCatalog =>
        /\ ShortCircuitTail(After(LastIndex("liked_songs_page")), SnapNoLikedSongs)
        /\ Ops({"lastfm_page", "match"}) = {}
        /\ NoPublish
        /\ pc \in {"put_completed_no_liked_songs", "catch", "done", "rejected"}

C6_Witness ==
    /\ EmptyCatalog
    /\ pc = "done"
    /\ kv # NoEntry /\ kv.value = SnapNoLikedSongs

\* C6 as stated: after an empty catalog the next snapshot stored is completed
C6_Original ==
    EmptyCatalog =>
        \A k \in (LastIndex("liked_songs_page") + 1)..Len(log) :
            (IsStoredPut(log[k]) /\ StoredBefore(k) = "fetching_liked_songs") =>
                log[k].status = "completed"

(***************************************************************************)
(* C7: after a matching run that matched no track (always the case when    *)
(* the listen-count data is empty), the job attempts the completed write   *)
(* (message: no liked songs with play counts) directly after               *)
(* matching_tracks and nothing else, except the failed write when the      *)
(* completed write throws: it never enters applying_shuffle_logic,         *)
(* creating_playlist or adding_tracks and creates no playlist.             *)
(***************************************************************************)
Matched == LastIndex("match") > 0

NoMatches == Matched /\ log[LastIndex("match")].n = 0

C7_EmptyMatchSet ==
    /\ (Matched /\ allTopTracks = <<>>) => NoMatches
    /\ Matched => (log[LastIndex("match")].n = 0) = (tracksWithPlayCounts = <<>>)
    /\ NoMatches =>
          /\ ShortCircuitTail(After(LastIndex("match")), SnapNoMatches)
          /\ StoredBefore(LastIndex("match")) = "matching_tracks"
          /\ \A k \in 1..Len(log) :
                log[k].op = "put" =>
                    log[k].status \notin {"applying_shuffle_logic", "creating_playlist",
                                          "adding_tracks"}
          /\ finalPlaylist = <<>>
          /\ NoPublish
          /\ pc \in {"put_completed_no_matches", "catch", "done", "rejected"}

C7_Witness ==
    /\ NoMatches
    /\ allTopTracks # <<>>
    /\ pc = "done"
    /\ kv # NoEntry /\ kv.value = SnapNoMatches

\* C7 as stated: a job that matched nothing does not end in failed
C7_Original ==
    (NoMatches /\ RunEnded) =>
        (WrittenStates # <<>> /\ WrittenStates[Len(WrittenStates)] = "completed")

(***************************************************************************)
(* C8: every snapshot stored with a terminal state is stored with the      *)
(* one-hour expiry, every snapshot with a non-terminal state without.      *)
(***************************************************************************)
C8_TerminalExpiry ==
    \A k \in 1..Len(log) :
        IsStoredPut(log[k]) => (log[k].ttl <=> log[k].status \in TerminalStates)

(***************************************************************************)
(* C9: addTracksToPlaylist, all calls succeeding, makes exactly            *)
(* min(ceil(n / 100), maxRequests) add calls; call k carries the           *)
(* identifiers at positions (k-1)*100 .. min(k*100, n)-1 in order, so the  *)
(* batches concatenate to the prefix of length min(n, maxRequests * 100);  *)
(* it never makes more than maxRequests calls nor sends more than 100      *)
(* identifiers in one call.                                                *)
(***************************************************************************)
C9_Batches ==
    LET n == Len(trackUris)
    IN /\ Len(batches) <= maxRequests
       /\ requestCount = Len(batches)
       /\ \A k \in 1..Len(batches) :
            /\ Len(batches[k]) <= batchSize
            /\ batches[k] = SubSeq(trackUris, (k - 1) * batchSize + 1, Min(k * batchSize, n))
       /\ pc = "put_completed" =>
            /\ Len(batches) = Min(CeilDiv(n, batchSize), maxRequests)
            /\ Flatten(batches) = SubSeq(trackUris, 1, Min(n, maxRequests * batchSize))

C9_Witness ==
    /\ pc = "put_completed"
    /\ Len(trackUris) = 350
    /\ maxRequests = 2
    /\ Len(batches) = 2
    /\ Len(Flatten(batches)) = 200

(***************************************************************************)
(* C10: when the publisher truncated, the job ends with a completed        *)
(* snapshot, not a failed one, and the message of that snapshot notes the  *)
(* truncation.                                                             *)
(***************************************************************************)
\* the texts of the program that mention the limit on added tracks
LimitTexts ==
    {"Adding ${shuffledTracks.length} tracks to playlist (limited to ${SPOTIFY_PLAYLIST_ADD_MAX_REQUESTS * 100} tracks)...",
     "Stopped adding tracks to playlist after ${maxRequests} requests due to limit."}

C10_TruncationNoted ==
    (warned /\ RunEnded) =>
        /\ WrittenStates[Len(WrittenStates)] = "completed"
        /\ kv # NoEntry => kv.value.message.text \in LimitTexts

(***************************************************************************)
(* C11: the matcher returns exactly the liked tracks whose match key is    *)
(* the key of at least one listen-count record, in their original order    *)
(* and with duplicates kept; the output is never longer than the input.    *)
(***************************************************************************)
\* some record of the listen-count data has the match key of the track
HasRecord(track) ==
    \E k \in 1..Len(allTopTracks) : LastFmKey(allTopTracks[k]) = SpotifyKey(track)

\* a matched track without the play count attached to it
WithoutPlayCount(t) == [f \in DOMAIN t \ {"lastFmPlayCount"} |-> t[f]]

C11_MatcherSubsequence ==
    Matched =>
        /\ [k \in 1..Len(tracksWithPlayCounts) |-> WithoutPlayCount(tracksWithPlayCounts[k])]
               = SelectSeq(allTracks, HasRecord)
        /\ Len(tracksWithPlayCounts) <= Len(allTracks)

\* a duplicate is kept, a track without a record is dropped, and the two tracks
\* kept are different ones in the order of the input
C11_Witness ==
    /\ Matched
    /\ allTracks = <<TrackC, TrackAB, TrackA, TrackC>>
    /\ Len(tracksWithPlayCounts) = 3
    /\ tracksWithPlayCounts[1].uri = TrackC.uri
    /\ tracksWithPlayCounts[2].uri = TrackA.uri
    /\ tracksWithPlayCounts[3].uri = TrackC.uri

(***************************************************************************)
(* C12: every identifier submitted to the created playlist is the URI of a *)
(* liked track for which the fetched listen-count data holds a record with *)
(* the same match key; a liked track without such a record is dropped by   *)
(* the matching run and gets no play count, so it never is in the level-0  *)
(* group: the pool and the shuffled sequence hold matched tracks only.     *)
(***************************************************************************)
IsMatchedTrack(t) ==
    /\ "lastFmPlayCount" \in DOMAIN t
    /\ \E k \in 1..Len(tracksWithPlayCounts) : tracksWithPlayCounts[k] = t

\* the records that have the match key of the track
RecordsOf(track) ==
    LET key == SpotifyKey(track)
    IN {k \in 1..Len(allTopTracks) : LastFmKey(allTopTracks[k]) = key}

C12_OnlyMatchedSubmitted ==
    /\ \* a batch has just been submitted
       (log # <<>> /\ log[Len(log)].op = "add_tracks" /\ log[Len(log)].ok) =>
           LET batch == batches[Len(batches)]
           IN \A u \in {batch[k] : k \in 1..Len(batch)} :
                  /\ \E j \in 1..Len(allTracks) : allTracks[j].uri = u
                  /\ \A j \in 1..Len(allTracks) :
                         allTracks[j].uri = u => RecordsOf(allTracks[j]) # {}
    /\ \* the matching run has just ended
       (log # <<>> /\ log[Len(log)].op = "match") =>
           /\ \A j \in 1..Len(allTracks) :
                  RecordsOf(allTracks[j]) = {} =>
                      \A k \in 1..Len(tracksWithPlayCounts) :
                          tracksWithPlayCounts[k].uri # allTracks[j].uri
           /\ \A k \in 1..Len(tracksWithPlayCounts) :
                  LET t == tracksWithPlayCounts[k]
                      ks == RecordsOf(WithoutPlayCount(t))
                  IN /\ "lastFmPlayCount" \in DOMAIN t
                     /\ ks # {}
                     /\ \E last \in ks :
                            /\ \A other \in ks : other <= last
                            /\ t.lastFmPlayCount = allTopTracks[last].playcount
    /\ \A k \in 1..Len(cumulativePool) : IsMatchedTrack(cumulativePool[k])
    /\ \A k \in 1..Len(finalPlaylist) : IsMatchedTrack(finalPlaylist[k])
    /\ Matched => Len(tracksWithPlayCounts) = log[LastIndex("match")].n

\* TrackAB of the catalog has no record and was dropped; TrackA was submitted
C12_Witness ==
    /\ pc = "done"
    /\ allTracks = <<TrackAB, TrackA>>
    /\ ~HasRecord(TrackAB)
    /\ HasRecord(TrackA)
    /\ batches # <<>>
    /\ \A b \in 1..Len(batches) : \A k \in 1..Len(batches[b]) : batches[b][k] = TrackA.uri

(***************************************************************************)
(* Reading the result of applyShuffleLogic                                 *)
(***************************************************************************)
\* applyShuffleLogic has returned finalPlaylist
ShuffleReturned == pc = "put_creating_playlist"

PlayCountOf(k) == tracksWithPlayCounts[k].lastFmPlayCount

\* the maximum play count of the input (0 for the empty input)
HighestPlayCount ==
    IF tracksWithPlayCounts = <<>> THEN 0
    ELSE CHOOSE m \in {PlayCountOf(k) : k \in 1..Len(tracksWithPlayCounts)} :
             \A k \in 1..Len(tracksWithPlayCounts) : PlayCountOf(k) <= m

Occurrences(seq, t) == Cardinality({j \in 1..Len(seq) : seq[j] = t})

(***************************************************************************)
(* C13: in the sequence applyShuffleLogic returns, every input track with  *)
(* play count p appears exactly (maximum play count - p + 1) times, and    *)
(* nothing but input tracks appears.                                       *)
(***************************************************************************)
C13_Occurrences ==
    ShuffleReturned =>
        /\ \A k \in 1..Len(tracksWithPlayCounts) :
               Occurrences(finalPlaylist, tracksWithPlayCounts[k])
                   = HighestPlayCount - PlayCountOf(k) + 1
        /\ \A j \in 1..Len(finalPlaylist) :
               \E k \in 1..Len(tracksWithPlayCounts) :
                   finalPlaylist[j] = tracksWithPlayCounts[k]

\* matched tracks {B: 0, C: 1}: B appears twice, C once
C13_Witness ==
    /\ ShuffleReturned
    /\ Len(tracksWithPlayCounts) = 2
    /\ PlayCountOf(1) = 0
    /\ PlayCountOf(2) = 1
    /\ Occurrences(finalPlaylist, tracksWithPlayCounts[1]) = 2
    /\ Occurrences(finalPlaylist, tracksWithPlayCounts[2]) = 1

(***************************************************************************)
(* C14: the length of the sequence applyShuffleLogic returns is the sum,   *)
(* over the input tracks, of (maximum play count - play count + 1).        *)
(***************************************************************************)
RECURSIVE SumOfRepeats(_)
SumOfRepeats(k) ==
    IF k = 0 THEN 0 ELSE SumOfRepeats(k - 1) + (HighestPlayCount - PlayCountOf(k) + 1)

C14_Length ==
    ShuffleReturned => Len(finalPlaylist) = SumOfRepeats(Len(tracksWithPlayCounts))

\* two tracks with play count 0 and one with play count 2: 3 + 3 + 1 = 7
C14_Witness ==
    /\ ShuffleReturned
    /\ Len(tracksWithPlayCounts) = 3
    /\ PlayCountOf(1) = 0
    /\ PlayCountOf(2) = 0
    /\ PlayCountOf(3) = 2
    /\ Len(finalPlaylist) = 7

(***************************************************************************)
(* C15: the sequence applyShuffleLogic returns is the concatenation, over  *)
(* the levels 0..maximum play count in increasing order, of one block per  *)
(* level whose cumulative pool is not empty; the block of level i is a     *)
(* permutation of exactly the input tracks with play count <= i, each      *)
(* once. A level with an empty pool gives no block; a level with no new    *)
(* track still gives a block.                                              *)
(***************************************************************************)
\* where block n of the history starts in finalPlaylist
RECURSIVE BlockStart(_)
BlockStart(n) == IF n <= 1 THEN 1 ELSE BlockStart(n - 1) + blocks[n - 1][2]

BlockOf(n) == SubSeq(finalPlaylist, BlockStart(n), BlockStart(n) + blocks[n][2] - 1)

\* the input tracks with play count <= i
TracksUpTo(i) ==
    {tracksWithPlayCounts[k] : k \in {x \in 1..Len(tracksWithPlayCounts) : PlayCountOf(x) <= i}}

C15_Blocks ==
    ShuffleReturned =>
        /\ {blocks[n][1] : n \in 1..Len(blocks)}
               = {i \in 0..HighestPlayCount : TracksUpTo(i) # {}}
        /\ \A n \in 1..(Len(blocks) - 1) : blocks[n][1] < blocks[n + 1][1]
        /\ BlockStart(Len(blocks) + 1) = Len(finalPlaylist) + 1
        /\ \A n \in 1..Len(blocks) :
               LET block == BlockOf(n)
               IN /\ {block[j] : j \in 1..Len(block)} = TracksUpTo(blocks[n][1])
                  /\ Len(block) = Cardinality(TracksUpTo(blocks[n][1]))

\* play counts 0 and 2: level 1 has no new track and still gives a block
C15_Witness ==
    /\ ShuffleReturned
    /\ Len(tracksWithPlayCounts) = 2
    /\ PlayCountOf(1) = 2
    /\ PlayCountOf(2) = 0
    /\ blocks = << <<0, 1>>, <<1, 1>>, <<2, 2>> >>
    /\ finalPlaylist = <<tracksWithPlayCounts[2], tracksWithPlayCounts[2],
                         tracksWithPlayCounts[2], tracksWithPlayCounts[1]>>

(***************************************************************************)
(* C16: applyShuffleLogic returns the empty sequence for the empty input;  *)
(* when all input tracks share one play count, it returns a single block   *)
(* that holds each input track exactly once.                               *)
(***************************************************************************)
SharedPlayCount ==
    /\ tracksWithPlayCounts # <<>>
    /\ \A k \in 1..Len(tracksWithPlayCounts) : PlayCountOf(k) = PlayCountOf(1)

C16_EmptyAndSingleLevel ==
    ShuffleReturned =>
        /\ tracksWithPlayCounts = <<>> => (finalPlaylist = <<>> /\ blocks = <<>>)
        /\ SharedPlayCount =>
               /\ blocks = << <<PlayCountOf(1), Len(tracksWithPlayCounts)>> >>
               /\ Len(finalPlaylist) = Len(tracksWithPlayCounts)
               /\ \A k \in 1..Len(tracksWithPlayCounts) :
                      Occurrences(finalPlaylist, tracksWithPlayCounts[k]) = 1

\* three tracks that share play count 2, returned in another order than given
C16_Witness ==
    /\ ShuffleReturned
    /\ Len(tracksWithPlayCounts) = 3
    /\ SharedPlayCount
    /\ PlayCountOf(1) = 2
    /\ Len(finalPlaylist) = 3
    /\ finalPlaylist # tracksWithPlayCounts

(***************************************************************************)
(* C17: two runs of applyShuffleLogic on the same input, whatever their    *)
(* random choices, return the same number of blocks with the same block    *)
(* boundaries, and corresponding blocks hold the same tracks the same      *)
(* number of times; only the order inside a block can differ.              *)
(***************************************************************************)
RECURSIVE RunBlockStart(_, _)
RunBlockStart(run, n) == IF n <= 1 THEN 1 ELSE RunBlockStart(run, n - 1) + run.blocks[n - 1][2]

RunBlock(run, n) ==
    SubSeq(run.final, RunBlockStart(run, n), RunBlockStart(run, n) + run.blocks[n][2] - 1)

SameMultiset(a, b) ==
    /\ Len(a) = Len(b)
    /\ \A j \in 1..Len(a) : Occurrences(a, a[j]) = Occurrences(b, a[j])

ThisRun == [final |-> finalPlaylist, blocks |-> blocks]

C17_SameBlockStructure ==
    (ShuffleReturned /\ previousRun # NoRun) =>
        /\ Len(blocks) = Len(previousRun.blocks)
        /\ Len(finalPlaylist) = Len(previousRun.final)
        /\ \A n \in 1..Len(blocks) :
               /\ RunBlockStart(ThisRun, n) = RunBlockStart(previousRun, n)
               /\ blocks[n] = previousRun.blocks[n]
               /\ SameMultiset(RunBlock(ThisRun, n), RunBlock(previousRun, n))

\* two runs on play counts 0 and 2 that differ in the order inside the last block
C17_Witness ==
    /\ ShuffleReturned
    /\ previousRun # NoRun
    /\ Len(tracksWithPlayCounts) = 2
    /\ PlayCountOf(1) = 0
    /\ PlayCountOf(2) = 2
    /\ Len(blocks) = 3
    /\ finalPlaylist # previousRun.final
    /\ RunBlock(ThisRun, 3) # RunBlock(previousRun, 3)

(***************************************************************************)
(* C18: a failure while fetching a listen-count page (non-success status,  *)
(* thrown error, or malformed page) ends pagination and nothing else: the  *)
(* pages before it were fetched, their records (and at most those of the   *)
(* failed page) are what the fetcher returns and what the map is built     *)
(* from, no further page is requested, the next write is matching_tracks,  *)
(* and a failed snapshot is only ever written after some other call threw. *)
(***************************************************************************)
\* the page requests whose failure the fetcher sees: it logs and breaks
LastFmFailures == {k \in 1..Len(log) : log[k].op = "lastfm_page" /\ ~log[k].ok}

\* page n has an entry without artist name or without track name
MalformedPage(n) ==
    \E i \in 1..Len(lastFmPages[n]) : ~HasArtistAndName(lastFmPages[n][i])

\* the requests answered with such a page, which the fetcher takes for a good one
MalformedFetches ==
    {k \in 1..Len(log) : log[k].op = "lastfm_page" /\ log[k].ok /\ MalformedPage(log[k].n)}

\* a call other than a page request of Last.fm that threw into the catch block
Throws == {k \in 1..Len(log) : ~log[k].ok /\ log[k].op \notin {"lastfm_page", "play_count_map"}}

\* what follows the failed page request at k of the history
PaginationStopsAt(k) ==
    LET failedPage == log[k].n
        kept == Flatten(SubSeq(lastFmPages, 1, failedPage - 1))
    IN /\ \A j \in 1..(failedPage - 1) :
              \E i \in 1..(k - 1) :
                  log[i].op = "lastfm_page" /\ log[i].n = j /\ log[i].ok
       /\ allTopTracks \in {kept, kept \o lastFmPages[failedPage]}
       /\ \A j \in (k + 1)..Len(log) : log[j].op \notin {"lastfm_page", "delay"}
       /\ k = Len(log) =>
              /\ pc = "put_matching_tracks"
              /\ error = NoError
              /\ DOMAIN lastFmPlayCountMap
                     = {LastFmKey(allTopTracks[j]) : j \in 1..Len(allTopTracks)}
       /\ k < Len(log) => (log[k + 1].op = "put" /\ log[k + 1].status = "matching_tracks")
       /\ log[Len(log)].op = "match" =>
              Len(tracksWithPlayCounts) = Len(SelectSeq(allTracks, HasRecord))

C18_LastFmFailureStopsPagination ==
    /\ \A k \in LastFmFailures \cup MalformedFetches : PaginationStopsAt(k)
    /\ \A j \in 1..Len(log) :
           (log[j].op = "put" /\ log[j].status = "failed") => \E i \in Throws : i < j

\* the part that holds: a failure the fetcher sees ends pagination only, as long as
\* the records it returns all have an artist and a name
SeenFailureStopsPagination ==
    FirstThrow(allTopTracks) = 0 =>
        /\ \A k \in LastFmFailures : PaginationStopsAt(k)
        /\ \A j \in 1..Len(log) :
               (log[j].op = "put" /\ log[j].status = "failed") => \E i \in Throws : i < j

\* a page with an entry without artist name was fetched as the only page; building
\* the map threw and the job stored failed with the TypeError as its error
MalformedPageFailsJob ==
    /\ pc = "done"
    /\ MalformedFetches # {}
    /\ LastFmFailures = {}
    /\ Throws = {}
    /\ error = TypeError
    /\ kv # NoEntry /\ kv.value = SnapFailed(TypeError)

(***************************************************************************)
(* C19: a failure while fetching a page of the liked catalog aborts the    *)
(* job: the job stores failed and does nothing else, in particular it      *)
(* never goes on with a partial catalog; and whenever the job is past the  *)
(* liked-songs fetch, every page up to the one without a next cursor was   *)
(* fetched successfully.                                                   *)
(***************************************************************************)
LikedFailures == {k \in 1..Len(log) : log[k].op = "liked_songs_page" /\ ~log[k].ok}

\* the job has left fetchAllLikedSongs normally
PastLikedSongs ==
    \/ Ops({"lastfm_page", "delay", "match", "create_playlist", "add_tracks"}) # {}
    \/ \E k \in 1..Len(log) :
           log[k].op = "put" /\ log[k].status \notin {"pending", "fetching_liked_songs", "failed"}

C19_LikedFailureAborts ==
    /\ \A k \in LikedFailures :
           /\ \A j \in (k + 1)..Len(log) : log[j].op = "put" /\ log[j].status = "failed"
           /\ ~PastLikedSongs
           /\ RunEnded => (Stored("failed") /\ pc = "done")
    /\ PastLikedSongs =>
           /\ LikedFailures = {}
           /\ \A j \in 1..Len(likedPages) :
                  \E i \in 1..Len(log) :
                      log[i].op = "liked_songs_page" /\ log[i].n = j /\ log[i].ok
           /\ allTracks = Flatten(likedPages)

(***************************************************************************)
(* C20: the trigger stores the pending snapshot, and that write has        *)
(* completed, before the orchestration starts and before the response is   *)
(* returned; the response does not wait for the orchestration. So a status *)
(* query for a processId the trigger returned finds a snapshot (never 404) *)
(* as long as no terminal snapshot's retention has expired.                *)
(***************************************************************************)
PendingStoredFirst ==
    /\ log # <<>>
    /\ IsStoredPut(log[1])
    /\ log[1].status = "pending"
    /\ \A k \in 2..Len(log) : ~(log[k].op = "put" /\ log[k].status = "pending")

\* the entry was written last by a terminal write with a retention period
TerminalRetentionSet ==
    \E k \in 1..Len(log) :
        /\ IsStoredPut(log[k]) /\ log[k].status \in TerminalStates /\ log[k].ttl
        /\ \A j \in (k + 1)..Len(log) : ~IsStoredPut(log[j])

C20_PendingBeforeStart ==
    /\ pc \notin {"put_pending", "not_started"} => PendingStoredFirst
    /\ response = 202 => PendingStoredFirst
    /\ pc \notin {"put_pending", "not_started", "wait_until"} => response = 202
    /\ pc = "not_started" => (response = 500 /\ Len(log) = 1 /\ kv = NoEntry)
    /\ (response = 202 /\ StatusQueryResponse(kv) = 404) => TerminalRetentionSet

\* the response is out, the orchestration has not written anything yet, and a status
\* query finds the pending snapshot
C20_Witness ==
    /\ response = 202
    /\ pc = "put_fetching_liked_songs"
    /\ Len(log) = 1
    /\ StatusQueryResponse(kv) = 200
    /\ kv.value = SnapPending

(***************************************************************************)
(* C21: a status query for a processId answers 200 with the snapshot most  *)
(* recently stored under the job's status key, or 404 when nothing is      *)
(* stored under the key asked for (unknown processId, entry evicted, or    *)
(* not written yet); the step of the query changes neither the store nor   *)
(* any variable of the job.                                                *)
(***************************************************************************)
jobVars == <<remoteVars, pc, kv, log, response, likedVars, lastFmVars, matchVars,
             shuffleVars, playlist, addVars, error, shuffleResponse, requests, store,
                   runs>>

C21_StatusQuery ==
    [][statusResponse' # statusResponse =>
         /\ UNCHANGED jobVars
         /\ IF statusResponse'.processId = ThisProcessId /\ kv # NoEntry
            THEN /\ statusResponse'.status = 200
                 /\ statusResponse'.body = kv.value
                 /\ WrittenStates # <<>>
                 /\ statusResponse'.body.status = WrittenStates[Len(WrittenStates)]
            ELSE /\ statusResponse'.status = 404
                 /\ "body" \notin DOMAIN statusResponse']_vars

\* a client was answered with the adding_tracks snapshot, and the job went on to
\* store completed
C21_Witness ==
    /\ statusResponse # NoResponse
    /\ statusResponse.processId = ThisProcessId
    /\ statusResponse.status = 200
    /\ statusResponse.body.status = "adding_tracks"
    /\ kv # NoEntry
    /\ kv.value.status = "completed"
    /\ pc = "done"

(***************************************************************************)
(* C22: when several runs with distinct processIds are under way, in any   *)
(* interleaving of their puts, every entry a run has written lies under    *)
(* the key of its own processId, and the entry under a run's key is at     *)
(* every moment the snapshot that run stored last (or evicted after the    *)
(* run's terminal write), as if the run were alone; runs of the same user  *)
(* proceed side by side.                                                   *)
(***************************************************************************)
OtherRuns(j) == (1..Len(runs)) \ {j}

C22_RunsIsolated ==
    \A j \in 1..Len(runs) :
        /\ \A k \in DOMAIN store :
              store[k].by.run = j => k = STATUS_KEY_PREFIX \o runs[j].processId
        /\ (\A i \in OtherRuns(j) : runs[i].processId # runs[j].processId) =>
              LET entry == StoreGet(store, STATUS_KEY_PREFIX \o runs[j].processId)
              IN IF entry = NoEntry
                 THEN runs[j].stored.status \in TerminalStates
                 ELSE entry.by.run = j /\ entry.value = runs[j].stored

\* two runs of the same user with different processIds, both in the middle of their
\* stages, each with its own snapshot in the store
C22_Witness ==
    /\ Len(runs) = 2
    /\ runs[1].userId = runs[2].userId
    /\ runs[1].processId # runs[2].processId
    /\ runs[1].pc = "put_matching_tracks"
    /\ runs[2].pc = "put_adding_tracks"
    /\ store[STATUS_KEY_PREFIX \o runs[1].processId].value = SnapFetchingLastFm
    /\ store[STATUS_KEY_PREFIX \o runs[2].processId].value = SnapCreatingPlaylist

(***************************************************************************)
(* C23: once the trigger has stored pending, the job's key holds at most   *)
(* one snapshot: the one stored last, whose state is not earlier in the    *)
(* stage order than any state stored before it; the key is empty only      *)
(* after a terminal snapshot written with a TTL has been evicted.          *)
(***************************************************************************)
\* the place of a state in the stage order; failed is terminal like completed
RECURSIVE RankFrom(_, _)
RankFrom(state, i) ==
    IF i > Len(StageOrder) THEN Len(StageOrder)
    ELSE IF StageOrder[i] = state THEN i ELSE RankFrom(state, i + 1)

Rank(state) == RankFrom(state, 1)

NeverEarlier ==
    \A k \in 1..Len(WrittenStates) :
        Rank(WrittenStates[k]) <= Rank(WrittenStates[Len(WrittenStates)])

LastStoredPut == SelectSeq(log, IsStoredPut)[Len(WrittenStates)]

C23_StoreInvariant ==
    WrittenStates # <<>> =>
        IF kv = NoEntry
        THEN LastStoredPut.ttl /\ LastStoredPut.status \in TerminalStates
        ELSE kv.value.status = WrittenStates[Len(WrittenStates)] /\ NeverEarlier

\* the job has stored failed after adding_tracks and the entry is still there
C23_Witness ==
    /\ Len(WrittenStates) >= 2
    /\ WrittenStates[Len(WrittenStates) - 1] = "adding_tracks"
    /\ kv # NoEntry
    /\ kv.value.status = "failed"

\* C23 as stated: exactly one snapshot is stored at every instant after the pending
\* write, and its state is never earlier than a state stored before
C23_Original ==
    WrittenStates # <<>> =>
        /\ kv # NoEntry
        /\ kv.value.status = WrittenStates[Len(WrittenStates)]
        /\ NeverEarlier

(***************************************************************************)
(* C24: no retry.  Every event of the job's history is a first attempt: no *)
(* snapshot state is put twice, no page of either service is requested     *)
(* twice, createPlaylist is called at most once, there are at most as many *)
(* add-tracks calls as there are batches, and none after one that failed;  *)
(* after a call or a put that threw the only further event is the put of   *)
(* failed, and after a failed Last.fm page no further page is requested.   *)
(* Stated for the latest event; every prefix of the history is the history *)
(* of an earlier state.                                                    *)
(***************************************************************************)
Earlier == 1..(Len(log) - 1)

Latest == log[Len(log)]

IsThrow(e) ==
    /\ ~e.ok
    /\ e.op \in {"put", "liked_songs_page", "play_count_map", "create_playlist", "add_tracks"}

C24_NoRetry ==
    log # <<>> =>
        /\ Latest.op = "put" =>
              \A k \in Earlier : ~(log[k].op = "put" /\ log[k].status = Latest.status)
        /\ Latest.op \in {"liked_songs_page", "lastfm_page"} =>
              \A k \in Earlier : ~(log[k].op = Latest.op /\ log[k].n = Latest.n)
        /\ Latest.op = "create_playlist" => \A k \in Earlier : log[k].op # "create_playlist"
        /\ Latest.op = "add_tracks" =>
              /\ \A k \in Earlier : log[k].op = "add_tracks" => log[k].ok
              /\ Cardinality(Ops({"add_tracks"})) <= CeilDiv(Len(trackUris), batchSize)
        /\ \A k \in Earlier :
              /\ IsThrow(log[k]) =>
                    k = Len(log) - 1 /\ Latest.op = "put" /\ Latest.status = "failed"
              /\ (log[k].op = "lastfm_page" /\ ~log[k].ok) =>
                    \A m \in (k + 1)..Len(log) : log[m].op \notin {"lastfm_page", "delay"}

\* the add-tracks batch was refused: the job stored failed and ended, the playlist
\* created once and no batch on it
C24_Witness ==
    /\ pc = "done"
    /\ Len(log) >= 3
    /\ log[Len(log) - 1].op = "add_tracks" /\ ~log[Len(log) - 1].ok
    /\ Latest.op = "put" /\ Latest.status = "failed" /\ Latest.ok
    /\ Cardinality(Ops({"create_playlist"})) = 1
    /\ Cardinality(Ops({"add_tracks"})) = 1
    /\ batches = <<>>

(***************************************************************************)
(* C25: no rollback.  Once createPlaylist has succeeded the playlist stays *)
(* on the remote service together with every batch added, and if a later   *)
(* step throws (an add-tracks batch or a snapshot write) the job ends with *)
(* failed as the state stored last.                                        *)
(***************************************************************************)
PlaylistCreated == LastIndex("create_playlist") > 0 /\ log[LastIndex("create_playlist")].ok

ThrowsAfterCreation ==
    {k \in (LastIndex("create_playlist") + 1)..Len(log) : IsThrow(log[k])}

C25_NoRollback ==
    PlaylistCreated =>
        /\ playlist # NoPlaylist
        /\ Len(batches) = Cardinality({k \in Ops({"add_tracks"}) : log[k].ok})
        /\ (RunEnded /\ ThrowsAfterCreation # {}) =>
              WrittenStates[Len(WrittenStates)] = "failed"

(***************************************************************************)
(* C26: a failure of the job shows in the job's own snapshot and nowhere   *)
(* else: the 202 response of the trigger stays as it is, the promise of    *)
(* startPlaylistGeneration is never rejected, and a job that has ended     *)
(* after a throw has failed as the state stored last.                      *)
(***************************************************************************)
C26_FailureInSnapshotOnly ==
    /\ response = 202
    /\ pc # "rejected"
    /\ (RunEnded /\ \E k \in 1..Len(log) : IsThrow(log[k])) =>
          WrittenStates[Len(WrittenStates)] = "failed"

(***************************************************************************)
(* C27: every run is given a processId no other run has, so no two runs    *)
(* write to the same status entry.                                         *)
(***************************************************************************)
C27_DistinctProcessIds ==
    \A i, j \in 1..Len(runs) : i # j => runs[i].processId # runs[j].processId

(***************************************************************************)
(* C28: a key of the form STATUS_KEY_PREFIX + processId is written only by *)
(* the /shuffle trigger and by the run of that processId, whatever userId  *)
(* the clients send, and a status query never answers with a credential    *)
(* record.                                                                 *)
(***************************************************************************)
StatusKeys == {STATUS_KEY_PREFIX \o processId : processId \in ProcessIdChoices}

C28_StatusEntryWriters ==
    /\ \A key \in StatusKeys \cap DOMAIN store :
          store[key].by.handler \in {"shuffle", "job"}
    /\ (statusResponse # NoResponse /\ statusResponse.status = 200) =>
          DOMAIN statusResponse.body \cap {"spotify", "lastFm"} = {}

(***************************************************************************)
(* C29: the job performs its operations one after the other.  A snapshot   *)
(* write of a stage is begun only when every earlier write of the job has  *)
(* completed (been stored), and those are writes of earlier stages; an     *)
(* add-tracks batch is sent only when every earlier batch has returned     *)
(* successfully and is on the playlist.  Stated for the latest event;      *)
(* every prefix of the history is the history of an earlier state.         *)
(***************************************************************************)
EarlierAdds == {k \in Earlier : log[k].op = "add_tracks"}

C29_OneAtATime ==
    log # <<>> =>
        /\ (Latest.op = "put" /\ Latest.status # "failed") =>
              \A k \in Earlier :
                  IsPut(log[k]) => log[k].ok /\ Rank(log[k].status) < Rank(Latest.status)
        /\ Latest.op = "add_tracks" =>
              /\ \A k \in EarlierAdds : log[k].ok
              /\ Len(batches) = Cardinality(EarlierAdds) + (IF Latest.ok THEN 1 ELSE 0)
              /\ addIndex = Len(batches) * batchSize

\* the second batch has been sent after the first had returned, and before that the
\* adding_tracks snapshot was stored after creating_playlist
C29_Witness ==
    /\ Cardinality(EarlierAdds) = 1
    /\ Latest.op = "add_tracks"
    /\ Latest.ok
    /\ Len(batches) = 2
    /\ \E k \in Earlier : IsStoredPut(log[k]) /\ log[k].status = "adding_tracks"

(***************************************************************************)
(* C30: the example in the doc comment of applyShuffleLogic (maximum play  *)
(* count 3: exactly three blocks, for the songs of up to 1, up to 2 and up *)
(* to 3 plays), and what the loop does for such an input: one shuffled     *)
(* block for each level from the lowest play count of the input to 3, the  *)
(* block of level i holding all songs with at most i plays, so four blocks *)
(* (0; 0-1; 0-2; 0-3) when some song has 0 plays.                          *)
(***************************************************************************)
LowestPlayCount ==
    CHOOSE m \in {PlayCountOf(k) : k \in 1..Len(tracksWithPlayCounts)} :
        \A k \in 1..Len(tracksWithPlayCounts) : m <= PlayCountOf(k)

BlockHolds(n, i) ==
    /\ blocks[n][1] = i
    /\ {BlockOf(n)[j] : j \in 1..Len(BlockOf(n))} = TracksUpTo(i)
    /\ Len(BlockOf(n)) = Cardinality(TracksUpTo(i))

\* what the loop returns when the maximum play count is 3
BlocksForMaxThree ==
    (ShuffleReturned /\ HighestPlayCount = 3) =>
        /\ Len(blocks) = 4 - LowestPlayCount
        /\ \A n \in 1..Len(blocks) : BlockHolds(n, LowestPlayCount + n - 1)

\* play counts 0 and 3: four blocks, the first with the song of 0 plays alone
FourBlocksForMaxThree ==
    /\ ShuffleReturned
    /\ HighestPlayCount = 3
    /\ LowestPlayCount = 0
    /\ Len(blocks) = 4
    /\ Len(BlockOf(1)) = 1
    /\ Len(finalPlaylist) = 5

\* C30: when the maximum play count is 3 the output consists of exactly three blocks,
\* the first with all songs of 0 or 1 play, the second with those of up to 2 plays, the
\* third with those of up to 3 plays
C30_ThreeBlocksForMaxThree ==
    (ShuffleReturned /\ HighestPlayCount = 3) =>
        /\ Len(blocks) = 3
        /\ \A n \in 1..3 : BlockHolds(n, n)

(***************************************************************************)
(* C31: the outbound API requests of one job (liked-songs pages, Last.fm   *)
(* pages, playlist creation, add-tracks calls) number fewer than 50,       *)
(* whatever the size of the liked catalog and of the play-count data.      *)
(***************************************************************************)
OutboundRequests ==
    Ops({"liked_songs_page", "lastfm_page", "create_playlist", "add_tracks"})

C31_UnderFiftyRequests == Cardinality(OutboundRequests) < 50

(***************************************************************************)
(* C32: the play count of every matched track is the count of the last     *)
(* record, in the order the fetcher returned them, that has the track's    *)
(* match key, and it is the value lastFmPlayCountMap holds for that key    *)
(* once all records are inserted.                                          *)
(***************************************************************************)
LastRecordOf(track) ==
    CHOOSE k \in RecordsOf(track) : \A other \in RecordsOf(track) : other <= k

C32_LastWriteWins ==
    Matched =>
        \A k \in 1..Len(tracksWithPlayCounts) :
            LET track == tracksWithPlayCounts[k]
            IN /\ RecordsOf(track) # {}
               /\ track.lastFmPlayCount = allTopTracks[LastRecordOf(track)].playcount
               /\ track.lastFmPlayCount = lastFmPlayCountMap[SpotifyKey(track)]

\* two records with the key of TrackA, play counts 0 then 2: the track gets 2
C32_Witness ==
    /\ Matched
    /\ allTopTracks = <<RecA0, RecA2>>
    /\ LastFmKey(RecA0) = LastFmKey(RecA2)
    /\ Len(tracksWithPlayCounts) >= 1
    /\ tracksWithPlayCounts[1].uri = TrackA.uri
    /\ tracksWithPlayCounts[1].lastFmPlayCount = 2

(***************************************************************************)
(* C33: a liked track and a play-count record whose joined artist string   *)
(* and title differ only in letter case and in leading or trailing         *)
(* whitespace have the same match key, and the track is matched; the key   *)
(* of a track with several artists holds all the artist names in their     *)
(* order, joined by ", ".                                                  *)
(***************************************************************************)
\* s without its leading and trailing spaces
Core(s) ==
    LET solid == {k \in 1..Len(s) : s[k] # " "}
    IN IF solid = {} THEN <<>>
       ELSE SubSeq(s, CHOOSE k \in solid : \A other \in solid : k <= other,
                      CHOOSE k \in solid : \A other \in solid : other <= k)

DiffersOnlyInCaseAndSpace(s, t) ==
    /\ Len(Core(s)) = Len(Core(t))
    /\ \A k \in 1..Len(Core(s)) : LowerChar(Core(s)[k]) = LowerChar(Core(t)[k])

JoinedArtists(track) ==
    IF Len(track.artists) = 2
    THEN track.artists[1] \o <<",", " ">> \o track.artists[2]
    ELSE track.artists[1]

SameTrack(track, record) ==
    /\ DiffersOnlyInCaseAndSpace(JoinedArtists(track), record.artist)
    /\ DiffersOnlyInCaseAndSpace(track.name, record.name)

C33_SameNormalization ==
    Matched =>
        \A i \in 1..Len(allTracks) :
            /\ \A k \in 1..Len(allTopTracks) :
                   SameTrack(allTracks[i], allTopTracks[k]) =>
                       /\ SpotifyKey(allTracks[i]) = LastFmKey(allTopTracks[k])
                       /\ \E m \in 1..Len(tracksWithPlayCounts) :
                              tracksWithPlayCounts[m].uri = allTracks[i].uri
            /\ Len(allTracks[i].artists) = 2 =>
                   DiffersOnlyInCaseAndSpace(
                       SpotifyKey(allTracks[i]),
                       JoinedArtists(allTracks[i]) \o <<" ", "-", " ">>
                           \o Core(allTracks[i].name))

\* a two-artist track whose title ends in a space and a one-artist track whose
\* record starts with a space and is in lower case are both matched
C33_Witness ==
    /\ Matched
    /\ allTracks = <<TrackAB, TrackA>>
    /\ allTopTracks = <<RecAB1, RecA0>>
    /\ TrackAB.name # RecAB1.name
    /\ RecA0.artist # TrackA.artists[1]
    /\ Len(tracksWithPlayCounts) = 2
    /\ tracksWithPlayCounts[1].lastFmPlayCount = 1

(***************************************************************************)
(* C34: both fetchers request page after page until the source has none    *)
(* left and return the pages concatenated in page order.  The k-th request *)
(* of either fetcher is for page k; when fetchAllLikedSongs has returned,  *)
(* every page of the catalog was requested once and allTracks is their     *)
(* concatenation; when fetchLastFmTopTracks has returned and no page       *)
(* failed, pages 1..totalPages were requested once each and allTopTracks   *)
(* is their concatenation.                                                 *)
(***************************************************************************)
LikedRequests == Ops({"liked_songs_page"})

LastFmRequests == Ops({"lastfm_page"})

\* the requests of R are for pages 1, 2, 3, ... in this order
InPageOrder(R) == \A k \in R : log[k].n = Cardinality({j \in R : j <= k})

LastFmReturned ==
    LastFmRequests # {} /\ pc \notin {"fetch_lastfm_top_tracks", "lastfm_page_delay"}

C34_AllPagesInOrder ==
    /\ InPageOrder(LikedRequests)
    /\ InPageOrder(LastFmRequests)
    /\ PastLikedSongs =>
           /\ Cardinality(LikedRequests) = Len(likedPages)
           /\ allTracks = Flatten(likedPages)
    /\ (LastFmReturned /\ LastFmFailures = {}) =>
           /\ Cardinality(LastFmRequests) = Len(lastFmPages)
           /\ totalPages = Len(lastFmPages)
           /\ allTopTracks = Flatten(lastFmPages)

\* two pages of liked songs and two pages of top tracks, all fetched
C34_Witness ==
    /\ Matched
    /\ Len(likedPages) = 2
    /\ Len(lastFmPages) = 2
    /\ Cardinality(LikedRequests) = 2
    /\ Cardinality(LastFmRequests) = 2
    /\ LastFmFailures = {}
    /\ allTracks = <<TrackA, TrackC>>
    /\ allTopTracks = <<RecA0, RecZ1, RecA0>>

(***************************************************************************)
(* C35: the request for page k+1 of the top tracks is issued only after a  *)
(* delay that follows the response for page k, and a delay is taken only   *)
(* after a page that is not the last one: every delay is followed by the   *)
(* request for the next page and by nothing else.                          *)
(***************************************************************************)
Delays == Ops({"delay"})

C35_DelayBetweenPages ==
    /\ \A k \in LastFmRequests :
           log[k].n > 1 =>
               /\ log[k - 1].op = "delay"
               /\ log[k - 2].op = "lastfm_page"
               /\ log[k - 2].ok
               /\ log[k - 2].n = log[k].n - 1
    /\ \A k \in Delays :
           /\ log[k - 1].op = "lastfm_page"
           /\ log[k - 1].ok
           /\ log[k - 1].n < Len(lastFmPages)
           /\ k < Len(log) =>
                  log[k + 1].op = "lastfm_page" /\ log[k + 1].n = log[k - 1].n + 1
    /\ LastFmReturned =>
           Cardinality(Delays) = Cardinality(LastFmRequests) - 1

\* two pages fetched with one delay between them, none after the second
C35_Witness ==
    /\ LastFmReturned
    /\ LastFmFailures = {}
    /\ Cardinality(LastFmRequests) = 2
    /\ Cardinality(Delays) = 1
    /\ \E k \in Delays : log[k - 1].n = 1 /\ log[k + 1].n = 2

(***************************************************************************)
(* C36: when addTracksToPlaylist returns, the truncation warning has been  *)
(* logged if and only if identifiers remain unsubmitted, which is if and   *)
(* only if the request budget is used up and the identifier sequence is    *)
(* longer than budget x batchSize; a sequence of exactly budget x          *)
(* batchSize identifiers gives no warning.                                 *)
(***************************************************************************)
Submitted == Len(Flatten(batches))

C36_WarningIffTruncated ==
    /\ pc = "add_tracks" => ~warned
    /\ pc = "put_completed" =>
           /\ warned <=> Submitted < Len(trackUris)
           /\ warned <=> (/\ requestCount = maxRequests
                          /\ Len(trackUris) > maxRequests * batchSize)
           /\ Len(trackUris) = maxRequests * batchSize => ~warned

\* 200 identifiers and a budget of 2 requests: all submitted, no warning
C36_Witness ==
    /\ pc = "put_completed"
    /\ Len(trackUris) = 200
    /\ maxRequests = 2
    /\ requestCount = 2
    /\ Submitted = 200
    /\ ~warned

(***************************************************************************)
(* C37: the shuffle of a level is a Fisher-Yates pass on a copy of the     *)
(* pool.  When applyShuffleLogic has returned, the input sequence is as it *)
(* was given, the cumulative pool holds the tracks in the order they were  *)
(* pushed (by level, then by input position), every block is a permutation *)
(* of the pool of its level, and the blocks the pass can produce for a     *)
(* pool are all the permutations of that pool.                             *)
(***************************************************************************)
\* the tracks in the order cumulativePool receives them
InPushOrder(tracks) ==
    Flatten([i \in 1..(HighestPlayCount + 1) |->
                 SelectSeq(tracks, LAMBDA t : t.lastFmPlayCount = i - 1)])

Injections(n) == {p \in [1..n -> 1..n] : \A a, b \in 1..n : p[a] = p[b] => a = b}

AllPermutations(seq) == {[k \in 1..Len(seq) |-> seq[p[k]]] : p \in Injections(Len(seq))}

\* the pool block n was shuffled from: the pool only grows at its end
PoolOfBlock(n) == SubSeq(cumulativePool, 1, blocks[n][2])

C37_FisherYatesOnCopy ==
    ShuffleReturned =>
        /\ \A k \in 1..Len(tracksWithPlayCounts) :
               tracksWithPlayCounts[k].id = ShuffleTrack(k).id
        /\ cumulativePool = InPushOrder(tracksWithPlayCounts)
        /\ \A n \in 1..Len(blocks) :
               /\ BlockOf(n) \in AllPermutations(PoolOfBlock(n))
               /\ ShuffledBlocks(PoolOfBlock(n)) = AllPermutations(PoolOfBlock(n))

\* three tracks of one level returned in the order 2, 3, 1; the pool keeps 1, 2, 3
C37_Witness ==
    /\ ShuffleReturned
    /\ Len(tracksWithPlayCounts) = 3
    /\ SharedPlayCount
    /\ cumulativePool = tracksWithPlayCounts
    /\ finalPlaylist = <<tracksWithPlayCounts[2], tracksWithPlayCounts[3],
                         tracksWithPlayCounts[1]>>

(***************************************************************************)
(* C38: the stored snapshot is always exactly what the latest write put    *)
(* there: it has the fields status, message and progress, the message is   *)
(* the one of its state, it has a playlistUrl field if and only if it is   *)
(* the completed snapshot written after the playlist was created and all   *)
(* batches were added, and it has an error field if and only if its state  *)
(* is failed.                                                              *)
(***************************************************************************)
CommonFields == {"status", "message", "progress"}

\* the message texts the code writes with each state
MessagesOf(status) ==
    CASE status = "pending" -> {SnapPending.message.text}
      [] status = "fetching_liked_songs" -> {SnapFetchingLikedSongs.message.text}
      [] status = "fetching_lastfm_top_tracks" -> {SnapFetchingLastFm.message.text}
      [] status = "matching_tracks" -> {SnapMatching(0).message.text}
      [] status = "applying_shuffle_logic" -> {SnapApplyingShuffle.message.text}
      [] status = "creating_playlist" -> {SnapCreatingPlaylist.message.text}
      [] status = "adding_tracks" -> {SnapAddingTracks(0).message.text}
      [] status = "completed" -> {SnapNoLikedSongs.message.text, SnapNoMatches.message.text,
                                  SnapCompleted("").message.text}
      [] status = "failed" -> {SnapFailed(KvError).message.text}

\* the playlist exists and addTracksToPlaylist has returned
Published ==
    /\ PlaylistCreated
    /\ pc \in {"put_completed", "done", "catch", "rejected"}
    /\ \A k \in Ops({"add_tracks"}) : log[k].ok
    /\ \E k \in 1..Len(log) : IsStoredPut(log[k]) /\ log[k].status = "adding_tracks"

C38_SnapshotFields ==
    kv # NoEntry =>
        LET snapshot == kv.value
            fields == DOMAIN snapshot
        IN /\ CommonFields \subseteq fields
           /\ fields \subseteq CommonFields \cup {"playlistUrl", "error"}
           /\ snapshot.message.text \in MessagesOf(snapshot.status)
           /\ "error" \in fields <=> snapshot.status = "failed"
           /\ "playlistUrl" \in fields <=> (snapshot.status = "completed" /\ Published)
           /\ "playlistUrl" \in fields =>
                  /\ snapshot.playlistUrl = playlist.url
                  /\ snapshot.message.text = SnapCompleted("").message.text
           /\ (snapshot.status = "completed" /\ ~Published) =>
                  snapshot.message.text # SnapCompleted("").message.text

\* a failed snapshot stored after the playlist was created: error, no playlistUrl
C38_Witness ==
    /\ kv # NoEntry
    /\ kv.value.status = "failed"
    /\ PlaylistCreated
    /\ DOMAIN kv.value = CommonFields \cup {"error"}

(***************************************************************************)
(* C39: along the snapshots written for one job the progress never         *)
(* decreases (0%, 0%, 10%, 50%, 90%, 95%, 98%, 100%), and a snapshot has   *)
(* progress 100% if and only if its state is completed or failed.          *)
(***************************************************************************)
Percent(progress) ==
    CASE progress = "0%" -> 0
      [] progress = "10%" -> 10
      [] progress = "50%" -> 50
      [] progress = "90%" -> 90
      [] progress = "95%" -> 95
      [] progress = "98%" -> 98
      [] progress = "100%" -> 100
      [] OTHER -> -1

\* the snapshots the job and the trigger wrote or tried to write, in order
Writes == SelectSeq(log, IsPut)

StoredProgress ==
    LET puts == SelectSeq(log, IsStoredPut) IN [k \in 1..Len(puts) |-> puts[k].progress]

C39_ProgressMonotonic ==
    /\ \A k \in 1..Len(Writes) :
           /\ Percent(Writes[k].progress) >= 0
           /\ Writes[k].progress = "100%" <=> Writes[k].status \in TerminalStates
           /\ k > 1 => Percent(Writes[k - 1].progress) <= Percent(Writes[k].progress)
    /\ kv # NoEntry =>
           (kv.value.progress = "100%" <=> kv.value.status \in TerminalStates)
    /\ (pc = "done" /\ kv # NoEntry /\ "playlistUrl" \in DOMAIN kv.value) =>
           StoredProgress = <<"0%", "0%", "10%", "50%", "90%", "95%", "98%", "100%">>

\* a job that stored all eight snapshots, the last one with the playlistUrl
C39_Witness ==
    /\ pc = "done"
    /\ kv # NoEntry
    /\ "playlistUrl" \in DOMAIN kv.value
    /\ kv.value.progress = "100%"
    /\ Len(StoredProgress) = 8
    /\ StoredProgress[4] = "50%"

(***************************************************************************)
(* C40: /shuffle starts a job only for a caller whose stored credentials,  *)
(* as the handler read them, hold a Spotify access token and a Last.fm     *)
(* username and session key, and only after the request for the Spotify    *)
(* profile succeeded; then it answers 202.  A request that finds the       *)
(* credentials incomplete is answered 401 without a profile request, one   *)
(* whose profile request fails is answered 500, and neither stores         *)
(* anything nor starts a run.                                              *)
(***************************************************************************)
CompleteCredentials(entry) ==
    /\ entry # NoEntry
    /\ {"spotify", "lastFm"} \subseteq DOMAIN entry.value
    /\ entry.value.spotify.access_token = SpotifyTokens.access_token
    /\ entry.value.lastFm.username = LastFmSession.username
    /\ entry.value.lastFm.sessionKey = LastFmSession.sessionKey

CredentialsComplete(userId) == CompleteCredentials(StoreGet(store, userId))

JobStarted == Len(runs') > Len(runs)

\* connection c takes a /shuffle request past the test of the credentials
ProfileRequested(c) == requests[c] = Idle /\ requests'[c].handler = "shuffle"

\* the /shuffle request on connection c is answered
ShuffleAnswered(c) == requests[c].handler = "shuffle" /\ requests'[c] = Idle

C40_TriggerGuard ==
    [][/\ \A c \in Connections :
              ProfileRequested(c) =>
                  /\ CredentialsComplete(requests'[c].userId)
                  /\ requests'[c].read.value = StoreGet(store, requests'[c].userId).value
                  /\ UNCHANGED <<store, runs, shuffleResponse>>
       /\ JobStarted =>
              /\ \E c \in Connections :
                     /\ ShuffleAnswered(c)
                     /\ CompleteCredentials(requests[c].read)
                     /\ runs'[Len(runs')].userId = requests[c].userId
              /\ shuffleResponse'.status = 202
              /\ shuffleResponse'.profile = "ok"
       /\ shuffleResponse' # shuffleResponse =>
              /\ shuffleResponse'.status \in {202, 401, 500}
              /\ shuffleResponse'.status = 202 <=> JobStarted
              /\ shuffleResponse'.profile # "ok" =>
                     /\ shuffleResponse'.status \in {401, 500}
                     /\ store' = store
                     /\ runs' = runs
              /\ shuffleResponse'.profile = "failed" =>
                     /\ shuffleResponse'.status = 500
                     /\ \E c \in Connections : ShuffleAnswered(c)
              /\ shuffleResponse'.profile = "none" =>
                     /\ shuffleResponse'.status = 401
                     /\ requests' = requests
                     /\ \E userId \in UserIdChoices : ~CredentialsComplete(userId)]_vars

\* a caller logged in to Spotify only has asked for a shuffle: 401, no request for
\* the profile under way, no run, and nothing but credentials in the store
C40_Witness ==
    /\ shuffleResponse = ShuffleAnswer(401, "none")
    /\ StoreGet(store, "u1") # NoEntry
    /\ DOMAIN StoreGet(store, "u1").value = {"spotify"}
    /\ \A userId \in UserIdChoices : ~CredentialsComplete(userId)
    /\ \A c \in Connections : requests[c] = Idle
    /\ runs = <<>>
    /\ \A processId \in ProcessIdChoices :
           StoreGet(store, STATUS_KEY_PREFIX \o processId) = NoEntry

\* a run of a caller whose credentials were replaced, between the handler's get and
\* the start of the run, by the pending snapshot of another caller's run
RunOfOverwrittenCaller ==
    /\ Len(runs) = 2
    /\ runs[2].userId = "playlist_status_p1"
    /\ runs[1].userId = "u1"
    /\ runs[1].processId = "p1"
    /\ ~CredentialsComplete("playlist_status_p1")
    /\ shuffleResponse = ShuffleAnswer(202, "ok")

====
